---- MODULE Spec2Model ----
(***************************************************************************)
(* LocalAI Assistant: the SMS pipeline of main.py, the bilingual intent    *)
(* classification and reply generation of src/ai_processor.py, the voice   *)
(* chain of src/enhanced_voice_system.py and the conversation log of       *)
(* src/database.py.                                                        *)
(*                                                                         *)
(* Messages are real strings and keyword matching is real substring        *)
(* matching on them.  External services (the Gemini model, SQLite, the     *)
(* Twilio SDK, the Google speech APIs, the request parser) answer          *)
(* nondeterministically with one of the outcomes the code distinguishes.   *)
(***************************************************************************)
EXTENDS Integers, Sequences, FiniteSets, TLC

(***************************************************************************)
(* Python string operations                                                *)
(***************************************************************************)

\* `k in m` for strings
Contains(k, m) ==
  \E i \in 1..(Len(m) - Len(k) + 1) : SubSeq(m, i, i + Len(k) - 1) = k

UpperChars == "ABCDEFGHIJKLMNOPQRSTUVWXYZÉÈÊÀÂÇÙÛÔÎ"
LowerChars == "abcdefghijklmnopqrstuvwxyzéèêàâçùûôî"

LowerChar(c) ==
  IF \E i \in 1..Len(UpperChars) : SubSeq(UpperChars, i, i) = c
  THEN LET i == CHOOSE j \in 1..Len(UpperChars) : SubSeq(UpperChars, j, j) = c
       IN  SubSeq(LowerChars, i, i)
  ELSE c

RECURSIVE LowerFrom(_, _)
LowerFrom(m, i) ==
  IF i > Len(m) THEN "" ELSE LowerChar(SubSeq(m, i, i)) \o LowerFrom(m, i + 1)

\* str.lower()
lower(m) == LowerFrom(m, 1)

\* str.strip(): leading and trailing blanks removed
RECURSIVE strip(_)
strip(m) ==
  IF m = "" THEN ""
  ELSE IF SubSeq(m, 1, 1) = " " THEN strip(SubSeq(m, 2, Len(m)))
  ELSE IF SubSeq(m, Len(m), Len(m)) = " " THEN strip(SubSeq(m, 1, Len(m) - 1))
  ELSE m

\* sum(1 for w in words if w in text): list entries are counted, so a word
\* listed twice counts twice
CountIn(words, text) ==
  Cardinality({i \in DOMAIN words : Contains(words[i], text)})

\* any(w in text for w in words)
AnyIn(words, text) == \E i \in DOMAIN words : Contains(words[i], text)

(***************************************************************************)
(* JSON documents: json.loads on the texts that occur in the model         *)
(***************************************************************************)

Conf(n, d) == [num |-> n, den |-> d]

JsonBookingLow   == "{\"intent\": \"booking\", \"confidence\": 0.3, \"escalate\": true}"
JsonComplaint    == "{\"intent\": \"complaint\", \"confidence\": 0.9, \"escalate\": false}"
JsonGeneral      == "{\"intent\": \"general\", \"confidence\": 0.9}"
JsonNoIntent     == "{\"confidence\": 0.9, \"escalate\": false}"
NotJsonText      == "Intent: faq (confidence 0.9)"
JsonServices     == "[\"haircut\", \"coloring\", \"styling\", \"treatment\", \"blowout\"]"
JsonNumbers      == "[1, 2]"
JsonNull         == "null"
JsonEmptyList    == "[]"

EmptyList == [type |-> "array", of |-> "str", items |-> << >>]

JSONDocs ==
  ( JsonBookingLow :> [type |-> "object", keys |-> {"intent", "confidence", "escalate"},
                       intent |-> "booking", confidence |-> Conf(3, 10), escalate |-> TRUE] ) @@
  ( JsonComplaint  :> [type |-> "object", keys |-> {"intent", "confidence", "escalate"},
                       intent |-> "complaint", confidence |-> Conf(9, 10), escalate |-> FALSE] ) @@
  ( JsonGeneral    :> [type |-> "object", keys |-> {"intent", "confidence"},
                       intent |-> "general", confidence |-> Conf(9, 10), escalate |-> FALSE] ) @@
  ( JsonNoIntent   :> [type |-> "object", keys |-> {"confidence", "escalate"},
                       intent |-> "", confidence |-> Conf(9, 10), escalate |-> FALSE] ) @@
  ( JsonServices   :> [type |-> "array", of |-> "str",
                       items |-> <<"haircut", "coloring", "styling", "treatment", "blowout">>] ) @@
  ( JsonNumbers    :> [type |-> "array", of |-> "int", items |-> <<"1", "2">>] ) @@
  ( JsonNull       :> [type |-> "null"] ) @@
  ( JsonEmptyList  :> EmptyList )

\* json.loads(text): a value, or JSONDecodeError
json_loads(text) ==
  IF text \in DOMAIN JSONDocs
  THEN [ok |-> TRUE, value |-> JSONDocs[text]]
  ELSE [ok |-> FALSE, value |-> [type |-> "null"]]

\* joining business.get('services', []) with a comma: TypeError unless a
\* list of str
JoinRaises(services) == ~(services.type = "array" /\ services.of = "str")

(***************************************************************************)
(* src/ai_processor.py: keyword tables                                     *)
(***************************************************************************)

booking_keywords ==
  << "appointment", "book", "schedule", "reserve", "available", "time",
     "slot", "tomorrow", "today", "next week", "haircut", "massage",
     "service", "treatment", "consultation", "rendez-vous", "réserver",
     "prendre", "disponible", "horaire", "coupe", "cheveux", "service",
     "traitement", "consultation", "demain", "aujourd'hui", "semaine prochaine" >>

faq_keywords ==
  << "hours", "open", "closed", "location", "address", "price", "cost",
     "how much", "phone", "contact", "parking", "payment", "accept",
     "credit card", "cash", "heures", "ouvert", "fermé", "adresse", "où",
     "prix", "coût", "combien", "téléphone", "contact", "stationnement",
     "paiement", "acceptez", "carte", "comptant" >>

complaint_keywords ==
  << "disappointed", "terrible", "awful", "worst", "horrible", "refund",
     "money back", "unsatisfied", "angry", "upset", "manager", "supervisor",
     "complaint", "problem", "déçu", "terrible", "affreux", "pire",
     "horrible", "remboursement", "argent", "insatisfait", "fâché",
     "contrarié", "gérant", "superviseur", "plainte", "problème" >>

cancellation_keywords ==
  << "cancel", "reschedule", "change", "move", "different time", "annuler",
     "reporter", "changer", "déplacer", "autre heure" >>

\* the dict's iteration order
IntentOrder == <<"booking", "faq", "complaint", "cancellation">>

intent_keywords ==
  [k \in {"booking", "faq", "complaint", "cancellation"} |->
     CASE k = "booking"      -> booking_keywords
       [] k = "faq"          -> faq_keywords
       [] k = "complaint"    -> complaint_keywords
       [] k = "cancellation" -> cancellation_keywords]

escalation_triggers ==
  << "manager", "supervisor", "owner", "complaint", "legal", "lawsuit",
     "attorney", "refund", "money back", "terrible", "awful", "worst",
     "horrible", "disgusting", "gérant", "superviseur", "propriétaire",
     "plainte", "légal", "poursuites", "avocat", "remboursement", "argent",
     "terrible", "affreux", "pire", "horrible", "dégoûtant" >>

french_words ==
  << "bonjour", "bonsoir", "salut", "merci", "svp", "s'il vous plaît",
     "comment", "quand", "où", "pourquoi", "combien", "quel", "quelle", "oui",
     "non", "je", "nous", "vous", "ils", "elles", "le", "la", "les", "un",
     "une", "des", "du", "de", "et", "ou", "mais", "avec", "sans", "heures",
     "ouvert", "fermé", "prix", "coût", "rendez-vous", "coupe", "cheveux",
     "salon", "adresse", "téléphone", "j'aimerais", "j'ai besoin",
     "pouvez-vous", "êtes-vous", "voudrais", "cherche", "veux", "avoir", "être" >>

(***************************************************************************)
(* src/ai_processor.py: AIProcessor                                        *)
(***************************************************************************)

None == [is_none |-> TRUE, text |-> ""]
Str(t) == [is_none |-> FALSE, text |-> t]

\* Python truth value of an Optional[str]
Truthy(v) == ~v.is_none /\ v.text # ""

MessageIntent(intent, confidence, entities, requires_escalation) ==
  [intent |-> intent, confidence |-> confidence, entities |-> entities,
   requires_escalation |-> requires_escalation]

AIResponse(text, confidence, intent, escalate) ==
  [text |-> text, confidence |-> confidence, intent |-> intent,
   escalate |-> escalate]

\* An answer of the Gemini model to one generate_content call: an exception,
\* or a response with a text
LLMError == [kind |-> "error", text |-> ""]
LLMText(t) == [kind |-> "text", text |-> t]

\* detect_language answering 'french' from one French word on
detect_language_one_word(message) ==
  LET message_lower == lower(message)
      french_count == CountIn(french_words, message_lower)
  IN  IF french_count >= 1 THEN "french" ELSE "english"

detect_language(message) ==
  LET message_lower == lower(message)
      french_count == CountIn(french_words, message_lower)
  IN  IF french_count >= 2 THEN "french" ELSE "english"

check_escalation_needed(message) ==
  AnyIn(escalation_triggers, lower(message))

\* The entities dict as a set of <<key, value>> pairs.  For a booking the
\* values (regex matches, service words) are not modelled, only the key
\* 'services' that is always set.
extract_entities(message, intent) ==
  LET m == lower(message) IN
  IF intent = "booking" THEN {<<"services", "mentions">>}
  ELSE IF intent = "faq" THEN
    IF AnyIn(<<"hour", "open", "close", "heure", "ouvert", "fermé">>, m)
      THEN {<<"question_type", "hours">>}
    ELSE IF AnyIn(<<"price", "cost", "much", "prix", "coût", "combien">>, m)
      THEN {<<"question_type", "pricing">>}
    ELSE IF AnyIn(<<"location", "address", "where", "adresse", "où">>, m)
      THEN {<<"question_type", "location">>}
    ELSE {}
  ELSE {}

safe_generate_content(llm) ==
  IF llm.kind = "error" THEN None ELSE Str(llm.text)

\* the fallback leaving requires_escalation False
fallback_intent_classification_no_escalation(message) ==
  LET message_lower == lower(message)
      intent ==
        IF AnyIn(<<"book", "appointment", "schedule", "rendez-vous", "réserver">>,
                 message_lower) THEN "booking"
        ELSE IF AnyIn(<<"hours", "open", "price", "cost", "heures", "ouvert", "prix">>,
                      message_lower) THEN "faq"
        ELSE IF AnyIn(<<"terrible", "awful", "complaint", "affreux", "plainte">>,
                      message_lower) THEN "complaint"
        ELSE "general"
  IN  MessageIntent(intent, Conf(6, 10), {}, FALSE)

fallback_intent_classification(message) ==
  LET message_lower == lower(message)
      intent ==
        IF AnyIn(<<"book", "appointment", "schedule", "rendez-vous", "réserver">>,
                 message_lower) THEN "booking"
        ELSE IF AnyIn(<<"hours", "open", "price", "cost", "heures", "ouvert", "prix">>,
                      message_lower) THEN "faq"
        ELSE IF AnyIn(<<"terrible", "awful", "complaint", "affreux", "plainte">>,
                      message_lower) THEN "complaint"
        ELSE "general"
  IN  MessageIntent(intent, Conf(6, 10), {}, check_escalation_needed(message))

\* llm is the model's answer to the classification prompt, should it be asked
ai_classify_intent(message, business, llm) ==
  IF JoinRaises(business.services)
  THEN [value |-> fallback_intent_classification(message), llm_calls |-> 0]
  ELSE
    LET response_text == safe_generate_content(llm)
        parsed == json_loads(strip(response_text.text))
        result == parsed.value
    IN  IF Truthy(response_text)
             /\ parsed.ok /\ result.type = "object"
             /\ {"intent", "confidence"} \subseteq result.keys
        THEN [value |-> MessageIntent(result.intent, result.confidence,
                          extract_entities(message, result.intent),
                          IF "escalate" \in result.keys THEN result.escalate ELSE FALSE),
              llm_calls |-> 1]
        ELSE [value |-> fallback_intent_classification(message), llm_calls |-> 1]

\* the last key, in insertion order, whose score is the largest
TopIntentLastOfTies(scores) ==
  LET scored == {i \in DOMAIN IntentOrder : scores[IntentOrder[i]] > 0}
      len(i) == Len(intent_keywords[IntentOrder[i]])
      sc(i) == scores[IntentOrder[i]]
      best == CHOOSE i \in scored :
                /\ \A j \in scored : sc(j) * len(i) <= sc(i) * len(j)
                /\ \A j \in scored : j > i => sc(j) * len(i) < sc(i) * len(j)
  IN  IntentOrder[best]

\* max(keyword_scores.keys(), key=...): the first key, in insertion order,
\* whose score is the largest
TopIntent(scores) ==
  LET scored == {i \in DOMAIN IntentOrder : scores[IntentOrder[i]] > 0}
      len(i) == Len(intent_keywords[IntentOrder[i]])
      sc(i) == scores[IntentOrder[i]]
      best == CHOOSE i \in scored :
                /\ \A j \in scored : sc(j) * len(i) <= sc(i) * len(j)
                /\ \A j \in scored : j < i => sc(j) * len(i) < sc(i) * len(j)
  IN  IntentOrder[best]

\* score / len(keywords) >= 0.2
ClearMatchInclusive(score, length) == 5 * score >= length

\* score / len(keywords) > 0.2
ClearMatch(score, length) == 5 * score > length

Min(a, b) == IF a <= b THEN a ELSE b

classify_intent(message, business, llm) ==
  LET message_lower == lower(message)
      scores == [k \in DOMAIN intent_keywords |->
                   CountIn(intent_keywords[k], message_lower)]
      keyword_scores == {k \in DOMAIN intent_keywords : scores[k] > 0}
      top_intent == TopIntent(scores)
      top_len == Len(intent_keywords[top_intent])
      ai_classification == ai_classify_intent(message, business, llm)
  IN  IF keyword_scores # {} /\ ClearMatch(scores[top_intent], top_len)
      THEN [value |-> MessageIntent(top_intent,
                        Conf(Min(2 * scores[top_intent], top_len), top_len),
                        extract_entities(message, top_intent),
                        check_escalation_needed(message)),
            via |-> "keyword", ai_classify_calls |-> 0, llm_calls |-> 0]
      ELSE [value |-> ai_classification.value,
            via |-> "ai", ai_classify_calls |-> 1,
            llm_calls |-> ai_classification.llm_calls]

FrenchFallback == "Merci de nous contacter! Comment puis-je vous aider aujourd'hui?"
FrenchErrorText == "Merci de votre message! Quelqu'un de notre équipe vous contactera bientôt."
EnglishFallback == "Thanks for reaching out! How can I help you today?"
EnglishErrorText == "Thanks for your message! Someone from our team will get back to you shortly."

\* The prompt the French generator builds, by the branch taken; "raise"
\* when building it raises
FrenchPrompt(message, business, intent) ==
  LET m == lower(message) IN
  IF intent.intent = "booking" THEN
    IF JoinRaises(business.services) THEN "raise" ELSE "fr_booking"
  ELSE IF intent.intent = "faq" THEN
    IF Contains("heure", m) \/ Contains("ouvert", m) THEN "fr_faq_hours"
    ELSE IF Contains("prix", m) \/ Contains("coût", m) \/ Contains("combien", m)
      THEN "fr_faq_prices"
    ELSE IF Contains("adresse", m) \/ Contains("où", m) THEN "fr_faq_address"
    ELSE "fr_faq"
  ELSE IF intent.intent = "complaint" THEN "fr_complaint"
  ELSE "fr_general"

EnglishPrompt(message, business, intent) ==
  IF intent.intent = "booking" THEN
    IF JoinRaises(business.services) THEN "raise" ELSE "en_booking"
  ELSE IF intent.intent = "faq" THEN
    IF JoinRaises(business.services) THEN "raise" ELSE "en_faq"
  ELSE IF intent.intent = "complaint" THEN "en_complaint"
  ELSE "en_general"

\* llm is the model's answer to the reply prompt, should it be asked.  The
\* try block ends in a return, or in an exception when the prompt cannot be
\* built; the except clause turns the exception into a fixed reply.
generate_french_response(message, business, intent, llm) ==
  LET prompt == FrenchPrompt(message, business, intent)
      response_text == safe_generate_content(llm)
  IN  IF prompt = "raise"
      THEN [value |-> AIResponse(FrenchErrorText, Conf(6, 10), intent.intent, FALSE),
            raised |-> FALSE, handled |-> TRUE,
            generator |-> "french", prompt |-> prompt, llm_calls |-> 0]
      ELSE [value |-> AIResponse(
                        IF Truthy(response_text) THEN response_text.text
                                                 ELSE FrenchFallback,
                        intent.confidence, intent.intent,
                        intent.requires_escalation \/ intent.intent = "complaint"),
            raised |-> FALSE, handled |-> FALSE,
            generator |-> "french", prompt |-> prompt, llm_calls |-> 1]

\* the English generator without its `if not response_text` default
generate_english_response_no_default(message, business, intent, llm) ==
  LET prompt == EnglishPrompt(message, business, intent)
      response_text == safe_generate_content(llm)
  IN  IF prompt = "raise"
      THEN [value |-> AIResponse(EnglishErrorText, Conf(6, 10), intent.intent, FALSE),
            raised |-> FALSE, handled |-> TRUE,
            generator |-> "english", prompt |-> prompt, llm_calls |-> 0]
      ELSE [value |-> AIResponse(response_text.text,
                        intent.confidence, intent.intent,
                        intent.requires_escalation \/ intent.intent = "complaint"),
            raised |-> FALSE, handled |-> FALSE,
            generator |-> "english", prompt |-> prompt, llm_calls |-> 1]

generate_english_response(message, business, intent, llm) ==
  LET prompt == EnglishPrompt(message, business, intent)
      response_text == safe_generate_content(llm)
  IN  IF prompt = "raise"
      THEN [value |-> AIResponse(EnglishErrorText, Conf(6, 10), intent.intent, FALSE),
            raised |-> FALSE, handled |-> TRUE,
            generator |-> "english", prompt |-> prompt, llm_calls |-> 0]
      ELSE [value |-> AIResponse(
                        IF Truthy(response_text) THEN response_text.text
                                                 ELSE EnglishFallback,
                        intent.confidence, intent.intent,
                        intent.requires_escalation \/ intent.intent = "complaint"),
            raised |-> FALSE, handled |-> FALSE,
            generator |-> "english", prompt |-> prompt, llm_calls |-> 1]

\* llmC and llmG are the model's answers to the classification prompt and to
\* the reply prompt.  The result carries the AIResponse and what was done to
\* produce it; it raises exactly when a generator lets an exception out.
generate_response(message, business, llmC, llmG) ==
  LET language == detect_language(message)
      intent_result == classify_intent(message, business, llmC)
      generated == IF language = "french"
                   THEN generate_french_response(message, business,
                                                 intent_result.value, llmG)
                   ELSE generate_english_response(message, business,
                                                  intent_result.value, llmG)
  IN  [value |-> generated.value,
       raised |-> generated.raised,
       handled |-> generated.handled,
       language |-> language,
       classification |-> intent_result,
       generator |-> generated.generator,
       prompt |-> generated.prompt,
       steps |-> <<"classify", "prompt">> \o
                 (IF generated.llm_calls = 1 THEN <<"generate">> ELSE << >>),
       llm_calls |-> intent_result.llm_calls + generated.llm_calls]

(***************************************************************************)
(* Inputs                                                                  *)
(***************************************************************************)

\* Customer messages: no keyword, few keywords, a clear match in each
\* bucket, fractions of exactly 0.2, ties between buckets, capitals, French
Messages ==
  { "hello",
    "",
    "  hello  ",
    "merci",
    "Hi, can I book an appointment?",
    "I want to book an appointment, is a time slot open today or tomorrow?",
    "cancel or reschedule",
    "please cancel or reschedule, I need to change it",
    "cancel reschedule change move annuler reporter",
    "hours open closed location address price",
    "hours open closed location address price cost",
    "what is the price?",
    "book appointment schedule time slot today terrible horrible awful worst",
    "terrible horrible awful worst",
    "book, this was terrible horrible awful, the worst",
    "Bonjour, je voudrais un rendez-vous",
    "BOOK APPOINTMENT SCHEDULE TIME SLOT TODAY",
    "book appointment schedule time slot today manager",
    "je suis déçu",
    "this is awful",
    "awful price to book" }

LLMClassifyOutcomes ==
  { LLMError, LLMText(""), LLMText(NotJsonText), LLMText(JsonNoIntent),
    LLMText(JsonNull), LLMText(JsonBookingLow), LLMText(JsonComplaint),
    LLMText(JsonGeneral) }

LLMGenerateOutcomes ==
  { LLMError, LLMText(""), LLMText("Sure! What day works for you?") }

\* A business as get_business_by_phone returns it
BusinessDict(id, phone, services) ==
  [id |-> id, name |-> "Bella Hair Salon", phone |-> phone,
   type |-> "hair_salon", services |-> services,
   hours |-> "Mon-Sat 9am-7pm, Closed Sunday",
   address |-> "123 Main Street, Anytown, ST 12345"]

\* The services a row can carry once parsed: the JSON array of strings the
\* code writes, and what json.loads makes of other contents of the column
ServicesValues == { JSONDocs[JsonServices], JSONDocs[JsonNull], JSONDocs[JsonNumbers] }

(***************************************************************************)
(* State                                                                   *)
(***************************************************************************)

VARIABLES
  \* main.py: the module globals and the startup event
  started,           \* the startup event has run
  ai_processor,      \* TRUE when the global holds an object (None otherwise)
  database,
  twilio_sms,
  facebook_api,
  twilio_client,     \* TwilioSMS.client is set (the credentials were found)
  \* SQLite (localai.db)
  businesses,        \* rows of the businesses table
  conversations,     \* rows of the conversations table, in insertion order
  \* the outside world
  sms_sent,          \* calls of client.messages.create, in order
  requests,          \* POST /webhook/sms exchanges: the form and the answer
  background_tasks,  \* the tasks added by the handler, one record each
  last_health,       \* the last answer of GET /health
  \* AIProcessor called on its own
  ai_pc,             \* "idle", "classified" or "responded"
  ai_in,             \* the arguments of the call and the Gemini answers it met
  ai_out,            \* what the call returned
  \* EnhancedVoiceSystem
  conversation_contexts,  \* call_sid -> the context of the call
  voice_out,         \* the last call of handle_voice_stream and what it returned
  chunks,            \* how many audio chunks were handed to handle_voice_stream
  \* webhook_handler.py: the module globals and what its handlers did
  facebook,          \* the FacebookAPI object: its instance attributes
  twilio,            \* the TwilioSMS object: TRUE when its client is set
  hook_requests,     \* the exchanges of the router, one record each
  hook_tasks,        \* the background tasks of the router, one record each
  hook_sms_sent,     \* calls of client.messages.create made by the router
  \* VoiceStreamHandler and POST /voice/status
  audio_buffer,      \* call_sid -> the frames buffered for the call
  stream,            \* call_sid -> the websocket loop of the call
  status_log,        \* the status callbacks answered, in order
  voice_system,      \* main_py_fix.py: TRUE when the global holds the system
  \* TwilioSMS.send_bulk_sms called on its own
  bulk_out,          \* the last call of send_bulk_sms: input, SDK calls and result
  \* TwilioVoice: a call answered by create_ai_response and process_voice_input
  tv_turns,          \* the turns of the call: the prompt, the reply, the result
  \* Database constructed several times on one file
  db_ctors,          \* the constructions of Database, one record each
  \* SQLite: the bookings table and the calls that write it
  bookings,          \* id -> row of the bookings table
  booking_out,       \* the last call of create_booking or update_booking_status
  \* Database.get_recent_conversations called on its own
  recent_out         \* the last call: its arguments, the rows selected, the result

componentVars == <<started, ai_processor, database, twilio_sms, facebook_api,
                   twilio_client>>
dbVars == <<businesses, conversations>>
smsVars == <<sms_sent, requests, background_tasks>>
aiVars == <<ai_pc, ai_in, ai_out>>
voiceVars == <<conversation_contexts, voice_out, chunks>>
hookVars == <<facebook, twilio, hook_requests, hook_tasks, hook_sms_sent>>
streamVars == <<audio_buffer, stream, status_log, voice_system>>

bookingVars == <<bookings, booking_out>>
laterVars == <<bulk_out, tv_turns, db_ctors, bookingVars, recent_out>>

vars == <<componentVars, dbVars, smsVars, last_health, aiVars, voiceVars,
          hookVars, streamVars, laterVars>>

(***************************************************************************)
(* src/database.py: Database                                               *)
(***************************************************************************)

\* os.getenv('TWILIO_PHONE_NUMBER', '+1234567890')
BusinessPhone == "+1234567890"
CustomerPhone == "+15145550199"
OtherPhone == "+15145550100"

\* a TEXT column: NULL or a text
SqlNull == [is_null |-> TRUE, text |-> ""]
SqlText(t) == [is_null |-> FALSE, text |-> t]

BusinessRow(id, phone, services) == [id |-> id, phone |-> phone, services |-> services]

DemoRow == BusinessRow("demo_salon_001", BusinessPhone, SqlText(JsonServices))

\* the businesses table before the program starts: a new file, or a file
\* whose demo row carries the JSON text null in its services column
InitialTables == { {}, {BusinessRow("demo_salon_001", BusinessPhone, SqlText(JsonNull))} }

\* the demo business is inserted when the table is empty; an sqlite error is
\* logged and swallowed
ensure_demo_business(table, dbOk) ==
  IF dbOk /\ table = {} THEN {DemoRow} ELSE table

\* json.loads(column or default) with the except clause's default
ParseJsonColumn(col) ==
  LET text == IF col.is_null \/ col.text = "" THEN JsonEmptyList ELSE col.text
      parsed == json_loads(text)
  IN  IF parsed.ok THEN parsed.value ELSE EmptyList

NoBusiness == BusinessDict("", "", EmptyList)

\* the SELECT without its WHERE clause: some row of the table, whatever phone
get_business_by_phone_any_row(table, phone, dbOk) ==
  LET row == CHOOSE r \in table : TRUE
  IN  IF dbOk /\ table # {}
      THEN [found |-> TRUE, raised |-> FALSE,
            business |-> BusinessDict(row.id, row.phone, ParseJsonColumn(row.services))]
      ELSE [found |-> FALSE, raised |-> FALSE, business |-> NoBusiness]

\* phone is an Optional[str]; an sqlite error gives None
get_business_by_phone(table, phone, dbOk) ==
  LET rows == {r \in table : ~phone.is_none /\ r.phone = phone.text}
      row == CHOOSE r \in rows : TRUE
  IN  IF dbOk /\ rows # {}
      THEN [found |-> TRUE, raised |-> FALSE,
            business |-> BusinessDict(row.id, row.phone, ParseJsonColumn(row.services))]
      ELSE [found |-> FALSE, raised |-> FALSE, business |-> NoBusiness]

\* log_conversation writing escalated = 0 whatever the response says
log_conversation_never_escalated(table, conversation_data, dbOk) ==
  IF dbOk /\ ~conversation_data.customer_phone.is_none
  THEN [ok |-> TRUE,
        table |-> Append(table,
          [business_id |-> conversation_data.business_id,
           customer_phone |-> conversation_data.customer_phone.text,
           platform |-> conversation_data.platform,
           inbound_message |-> conversation_data.inbound_message,
           outbound_message |-> conversation_data.outbound_message,
           intent |-> conversation_data.intent,
           ai_confidence |-> conversation_data.ai_confidence,
           escalated |-> FALSE])]
  ELSE [ok |-> FALSE, table |-> table]

\* the INSERT fails on an sqlite error and on a NULL customer_phone
\* (customer_phone TEXT NOT NULL); the failure is logged and False returned.
\* response_time_ms is not modelled.
log_conversation(table, conversation_data, dbOk) ==
  IF dbOk /\ ~conversation_data.customer_phone.is_none
  THEN [ok |-> TRUE,
        table |-> Append(table,
          [business_id |-> conversation_data.business_id,
           customer_phone |-> conversation_data.customer_phone.text,
           platform |-> conversation_data.platform,
           inbound_message |-> conversation_data.inbound_message,
           outbound_message |-> conversation_data.outbound_message,
           intent |-> conversation_data.intent,
           ai_confidence |-> conversation_data.ai_confidence,
           escalated |-> conversation_data.escalated])]
  ELSE [ok |-> FALSE, table |-> table]

(***************************************************************************)
(* src/integrations/twilio_sms.py: TwilioSMS                               *)
(***************************************************************************)

Digits == "0123456789"

RECURSIVE KeepDigitsAndPlus(_, _)
KeepDigitsAndPlus(phone, i) ==
  IF i > Len(phone) THEN ""
  ELSE LET c == SubSeq(phone, i, i) IN
       (IF Contains(c, Digits) \/ c = "+" THEN c ELSE "")
         \o KeepDigitsAndPlus(phone, i + 1)

\* phone is an Optional[str]
format_phone_number(phone) ==
  IF phone.is_none \/ phone.text = "" THEN ""
  ELSE LET p == KeepDigitsAndPlus(phone.text, 1) IN
       IF Len(p) = 11 /\ SubSeq(p, 1, 1) = "1" THEN "+" \o p
       ELSE IF Len(p) = 10 THEN "+1" \o p
       ELSE IF ~(Len(p) >= 1 /\ SubSeq(p, 1, 1) = "+") THEN "+" \o p
       ELSE p

\* send_sms reporting success for every call it hands to the SDK
send_sms_optimistic(client, to_phone, from_phone, message, sdkOk) ==
  IF ~client
  THEN [success |-> FALSE, error |-> "Twilio not configured", calls |-> << >>]
  ELSE LET to == format_phone_number(to_phone)
           from == format_phone_number(from_phone)
           delivered == sdkOk /\ to # ""
       IN  [success |-> TRUE,
            error |-> "",
            calls |-> << [to |-> to, from_ |-> from, body |-> message,
                          ok |-> delivered] >>]

\* client is TwilioSMS.client; sdkOk says whether messages.create returns or
\* raises.  Twilio rejects an empty destination.  The result is the dict
\* returned and the SDK calls made.
send_sms(client, to_phone, from_phone, message, sdkOk) ==
  IF ~client
  THEN [success |-> FALSE, error |-> "Twilio not configured", calls |-> << >>]
  ELSE LET to == format_phone_number(to_phone)
           from == format_phone_number(from_phone)
           delivered == sdkOk /\ to # ""
       IN  [success |-> delivered,
            error |-> IF delivered THEN "" ELSE "Twilio error",
            calls |-> << [to |-> to, from_ |-> from, body |-> message,
                          ok |-> delivered] >>]

(***************************************************************************)
(* main.py                                                                 *)
(***************************************************************************)

\* how many POST /webhook/sms requests a behaviour has
MaxRequests == 2

\* initialize_components: the globals are assigned in order until a
\* constructor raises.  fail_at names the step that raises: the
\* GEMINI_API_KEY check, AIProcessor() (the Gemini SDK), Database() (sqlite),
\* TwilioSMS() (the Twilio SDK), or none.  FacebookAPI() only reads the
\* environment.
FailPoints == {"gemini_key", "ai_processor", "database", "twilio_sms", "none"}

InitializeComponents(fail_at, demoOk, credentials) ==
  /\ ~started
  /\ started' = TRUE
  /\ ai_processor' = (fail_at \notin {"gemini_key", "ai_processor"})
  /\ database' = (fail_at \in {"twilio_sms", "none"})
  /\ twilio_sms' = (fail_at = "none")
  /\ facebook_api' = (fail_at = "none")
  /\ twilio_client' = (fail_at = "none" /\ credentials)
  /\ businesses' = IF fail_at \in {"twilio_sms", "none"}
                   THEN ensure_demo_business(businesses, demoOk)
                   ELSE businesses
  /\ UNCHANGED <<conversations, smsVars, last_health, aiVars, voiceVars,
               hookVars, laterVars, streamVars>>

\* the business the health probe passes to generate_response
test_business ==
  [id |-> "", name |-> "Test Business", phone |-> "", type |-> "",
   services |-> [type |-> "array", of |-> "str", items |-> <<"test">>],
   hours |-> "9-5", address |-> "Test Address"]

\* health_status degraded by a failed probe only, not by a missing component
HealthStatusProbesOnly(ai, db, tw, fb, ai_raised, db_raised) ==
  [status |-> IF (ai /\ ai_raised) \/ (db /\ db_raised) THEN "degraded" ELSE "healthy",
   components |->
     [ai_processor |-> IF ~ai THEN "Not initialized"
                       ELSE IF ai_raised THEN "Error" ELSE "Ready",
      database |-> IF ~db THEN "Not initialized"
                   ELSE IF db_raised THEN "Error" ELSE "Connected",
      twilio |-> IF tw THEN "Ready" ELSE "Not initialized",
      facebook |-> IF fb THEN "Ready" ELSE "Not initialized",
      dashboard |-> "Available at /dashboard/web"]]

\* the body of the answer, from the globals and from whether each probe
\* raised
HealthStatus(ai, db, tw, fb, ai_raised, db_raised) ==
  [status |-> IF ai /\ ~ai_raised /\ db /\ ~db_raised /\ tw /\ fb
              THEN "healthy" ELSE "degraded",
   components |->
     [ai_processor |-> IF ~ai THEN "Not initialized"
                       ELSE IF ai_raised THEN "Error" ELSE "Ready",
      database |-> IF ~db THEN "Not initialized"
                   ELSE IF db_raised THEN "Error" ELSE "Connected",
      twilio |-> IF tw THEN "Ready" ELSE "Not initialized",
      facebook |-> IF fb THEN "Ready" ELSE "Not initialized",
      dashboard |-> "Available at /dashboard/web"]]

\* GET /health.  The AI probe is generate_response("hello", test_business),
\* the database probe get_business_by_phone of the configured number.
health_check(llmC, llmG, dbOk) ==
  /\ started
  /\ \E ai_raised \in
          {ai_processor /\ generate_response("hello", test_business, llmC, llmG).raised},
        db_raised \in
          {database /\ get_business_by_phone(businesses, Str(BusinessPhone), dbOk).raised} :
       \E health_status \in {HealthStatus(ai_processor, database, twilio_sms,
                                          facebook_api, ai_raised, db_raised)} :
         last_health' = [status_code |-> 200,
                         status |-> health_status.status,
                         components |-> health_status.components,
                         ai_probe_raised |-> ai_raised,
                         db_probe_raised |-> db_raised]
  /\ UNCHANGED <<componentVars, dbVars, smsVars, aiVars, voiceVars,
               hookVars, laterVars, streamVars>>

\* the Gemini answers the probe can meet: the service is down, or it answers
\* both calls
HealthLLMOutcomes ==
  { <<LLMError, LLMError>>,
    <<LLMText(JsonGeneral), LLMText("Sure! What day works for you?")>> }

NoHealth == [status_code |-> 0, status |-> "", components |-> << >>,
             ai_probe_raised |-> FALSE, db_probe_raised |-> FALSE]

\* The Twilio form of a POST /webhook/sms; each field is present or absent
Form(from, to, body, sid) ==
  [From |-> from, To |-> to, Body |-> body, MessageSid |-> sid]

SmsForms ==
  { Form(Str(CustomerPhone), Str(BusinessPhone), Str("  this is awful  "), Str("SM1")),
    Form(Str(CustomerPhone), Str(OtherPhone), Str("hello"), Str("SM3")),
    Form(None, Str(BusinessPhone), None, Str("SM4")) }

\* the Gemini answers a background task can meet
SmsLLMClassifyOutcomes == { LLMError }
SmsLLMGenerateOutcomes == { LLMText(""), LLMText("Sure! What day works for you?") }

\* what a task that has not run, or that found no business, has done
NoRun ==
  [steps |-> << >>, found |-> FALSE, business_id |-> "",
   ai_response |-> AIResponse("", Conf(0, 1), "", FALSE),
   log_ok |-> FALSE, success |-> FALSE, sdk_calls |-> 0]

\* sms_data with From and To exchanged
SmsDataSwapped(form) ==
  [From |-> form.To, To |-> form.From,
   Body |-> IF form.Body.is_none THEN "" ELSE form.Body.text,
   MessageSid |-> form.MessageSid]

\* the dict handed to the background task: form_data.get(...) of the four
\* fields, Body defaulting to the empty text
SmsData(form) ==
  [From |-> form.From, To |-> form.To,
   Body |-> IF form.Body.is_none THEN "" ELSE form.Body.text,
   MessageSid |-> form.MessageSid]

\* POST /webhook/sms.  formOk says whether request.form() returns or raises;
\* the form is not read when a component is missing.
\* the test reading 'and' where the code reads 'or': all three globals are None
ComponentsAllMissing == ~ai_processor /\ ~database /\ ~twilio_sms

\* not ai_processor or not database or not twilio_sms
ComponentsMissing == ~ai_processor \/ ~database \/ ~twilio_sms

handle_sms_webhook(form, formOk) ==
  /\ started
  /\ Len(requests) < MaxRequests
  /\ IF ComponentsMissing
     THEN /\ requests' = Append(requests,
               [form |-> form, form_raised |-> FALSE, status_code |-> 503,
                body |-> "", detail |-> "Components not properly initialized"])
          /\ UNCHANGED background_tasks
     ELSE IF ~formOk
     THEN /\ requests' = Append(requests,
               [form |-> form, form_raised |-> TRUE, status_code |-> 500,
                body |-> "Error", detail |-> ""])
          /\ UNCHANGED background_tasks
     ELSE LET sms_data == SmsData(form)
          IN  /\ background_tasks' = Append(background_tasks,
                   [request |-> Len(requests) + 1, sms_data |-> sms_data,
                    state |-> "scheduled", run |-> NoRun])
              /\ requests' = Append(requests,
                   [form |-> form, form_raised |-> FALSE, status_code |-> 200,
                    body |-> "", detail |-> ""])
  /\ UNCHANGED <<componentVars, dbVars, sms_sent, last_health, aiVars, voiceVars,
               hookVars, laterVars, streamVars>>

\* the steps with send_sms before log_conversation
SmsStepsSendFirst(ai_steps) == <<"lookup">> \o ai_steps \o <<"send", "log">>

\* the order in which process_sms_message does its steps once the business
\* is found: generate_response, log_conversation, send_sms
SmsSteps(ai_steps) == <<"lookup">> \o ai_steps \o <<"log", "send">>

\* The background task of one request, run by the event loop after the
\* answer was sent.  None of the coroutines it awaits suspends (sqlite3, the
\* Gemini client and the Twilio client are called synchronously), so it runs
\* from start to end in one step.  lookupOk says whether sqlite answers the
\* lookup or raises; the outcomes of the later calls are drawn when the task
\* gets that far: llmC and llmG are Gemini's answers, logOk says whether the
\* INSERT succeeds, sdkOk whether messages.create returns or raises.
\* a task that runs only once every task added before it has sent its SMS
RunnableAfterEarlierSent(t) ==
  /\ background_tasks[t].state = "scheduled"
  /\ \A u \in 1..(t - 1) : background_tasks[u].run.success

\* add_task on the BackgroundTasks of the request: the framework runs the task
\* once the response is sent, whatever became of the tasks of other requests
Runnable(t) == background_tasks[t].state = "scheduled"

process_sms_message(t, lookupOk) ==
  /\ t \in DOMAIN background_tasks
  /\ Runnable(t)
  /\ LET sms_data == background_tasks[t].sms_data
         customer_phone == sms_data.From
         business_phone == sms_data.To
         message_text == strip(sms_data.Body)
         lookup == get_business_by_phone(businesses, business_phone, lookupOk)
         business == lookup.business
     IN  IF ~lookup.found
         THEN /\ background_tasks' =
                   [background_tasks EXCEPT
                      ![t].state = "done",
                      ![t].run = [NoRun EXCEPT !.steps = <<"lookup">>]]
              /\ UNCHANGED <<conversations, sms_sent>>
         ELSE \E llmC \in SmsLLMClassifyOutcomes, llmG \in SmsLLMGenerateOutcomes :
              \E ai \in {generate_response(message_text, business, llmC, llmG)} :
              \E logOk \in BOOLEAN, sdkOk \in (IF twilio_client THEN BOOLEAN ELSE {TRUE}) :
              LET ai_response == ai.value
                  conversation_data ==
                    [business_id |-> business.id,
                     customer_phone |-> customer_phone,
                     platform |-> "sms",
                     inbound_message |-> message_text,
                     outbound_message |-> ai_response.text,
                     intent |-> ai_response.intent,
                     ai_confidence |-> ai_response.confidence,
                     escalated |-> ai_response.escalate]
                  logged == log_conversation(conversations, conversation_data, logOk)
                  sms_result == send_sms(twilio_client, customer_phone,
                                         business_phone, ai_response.text, sdkOk)
              IN  /\ conversations' = logged.table
                  /\ sms_sent' = sms_sent \o sms_result.calls
                  /\ background_tasks' =
                       [background_tasks EXCEPT
                          ![t].state = "done",
                          ![t].run = [steps |-> SmsSteps(ai.steps),
                                      found |-> TRUE,
                                      business_id |-> business.id,
                                      ai_response |-> ai_response,
                                      log_ok |-> logged.ok,
                                      success |-> sms_result.success,
                                      sdk_calls |-> Len(sms_result.calls)]]
  /\ UNCHANGED <<componentVars, businesses, requests, last_health, aiVars, voiceVars,
               hookVars, laterVars, streamVars>>

(***************************************************************************)
(* src/enhanced_voice_system.py: EnhancedVoiceSystem                       *)
(***************************************************************************)

\* how many audio chunks a behaviour hands to handle_voice_stream
MaxChunks == 2

CallSids == {"CA1", "CA2"}

\* self.phone_number, os.getenv('TWILIO_PHONE_NUMBER'): the environment
\* names the number of the demo business
VoicePhoneNumber == Str(BusinessPhone)

\* What speech_client.recognize answers for a chunk: it raises, it has no
\* result, or its first alternative has a transcript and a confidence
\* (in hundredths)
SpeechError == [kind |-> "error", transcript |-> "", confidence |-> 0]
SpeechNoResult == [kind |-> "no_result", transcript |-> "", confidence |-> 0]
SpeechResult(transcript, confidence) ==
  [kind |-> "result", transcript |-> transcript, confidence |-> confidence]

SpeechOutcomes ==
  { SpeechError, SpeechNoResult,
    SpeechResult("Bonjour, merci", 60),
    SpeechResult("Bonjour, merci", 95),
    SpeechResult(" this is terrible ", 61),
    SpeechResult("  ", 95) }

\* speech_to_text accepting a confidence of 0.6 and above
speech_to_text_inclusive(recognition) ==
  IF recognition.kind = "result" /\ recognition.confidence >= 60
  THEN Str(strip(recognition.transcript))
  ELSE None

\* the transcript of the first alternative when its confidence is above
\* 0.6, None otherwise and on an error of the speech API
speech_to_text(recognition) ==
  IF recognition.kind = "result" /\ recognition.confidence > 60
  THEN Str(strip(recognition.transcript))
  ELSE None

voice_french_words ==
  << "bonjour", "salut", "merci", "oui", "non", "je", "vous",
     "comment", "quand", "où", "pourquoi", "combien",
     "heures", "ouvert", "fermé", "prix", "rendez-vous",
     "allô", "bonsoir", "allo" >>

detect_language_from_speech(transcript) ==
  IF CountIn(voice_french_words, lower(transcript)) >= 2 THEN "french" ELSE "english"

\* the places of text, at or after i, where old occurs
OccurrencesFrom(text, old, i) ==
  {j \in i..(Len(text) - Len(old) + 1) : SubSeq(text, j, j + Len(old) - 1) = old}

\* str.replace: every occurrence of old, left to right, without overlap
RECURSIVE ReplaceFrom(_, _, _, _)
ReplaceFrom(text, old, new, i) ==
  LET hits == OccurrencesFrom(text, old, i)
      j == CHOOSE h \in hits : \A k \in hits : h <= k
  IN  IF hits = {} THEN SubSeq(text, i, Len(text))
      ELSE SubSeq(text, i, j - 1) \o new \o ReplaceFrom(text, old, new, j + Len(old))

Replace(text, old, new) == ReplaceFrom(text, old, new, 1)

\* the index of the first "." of text at or after i, 0 when there is none
FindDot(text, i) ==
  LET hits == OccurrencesFrom(text, ".", i)
  IN  IF hits = {} THEN 0 ELSE CHOOSE h \in hits : \A k \in hits : h <= k

\* '. '.join(text.split('.')[:2]) + '.'
FirstTwoSentences(text) ==
  LET p1 == FindDot(text, 1)
      p2 == FindDot(text, p1 + 1)
  IN  IF p1 = 0 THEN text \o "."
      ELSE SubSeq(text, 1, p1 - 1) \o ". " \o
           SubSeq(text, p1 + 1, IF p2 = 0 THEN Len(text) ELSE p2 - 1) \o "."

optimize_for_voice(text, language) ==
  LET unpunctuated == Replace(Replace(text, "!", "."), "?", ".")
      shortened == IF Len(unpunctuated) > 200
                   THEN FirstTwoSentences(unpunctuated) ELSE unpunctuated
      paused == Replace(shortened, ". ", ". ... ")
  IN  IF language = "french"
      THEN Replace(Replace(paused, "Nous sommes", "On est"), "Pouvez-vous", "Peux-tu")
      ELSE Replace(Replace(paused, "We are", "We're"), "You can", "You can just")

VoiceNoBusinessFrench ==
  "Désolé, je ne peux pas accéder aux informations d'entreprise en ce moment."
VoiceNoBusinessEnglish == "Sorry, I can't access business information right now."
VoiceTransferFrench == " Je vais vous transférer à quelqu'un maintenant."
VoiceTransferEnglish == " Let me transfer you to someone who can help."
VoiceErrorFrench ==
  "Désolé, j'ai un petit problème technique. Comment puis-je vous aider?"
VoiceErrorEnglish == "Sorry, I'm having a technical issue. How can I help you?"

\* what the constructors and calls of generate_voice_response meet:
\* AIProcessor() raises or not, Database() raises in init_database or not,
\* the demo INSERT and the lookup fail in sqlite or not, Gemini's two answers
VoiceEnv(aiOk, dbOk, demoOk, lookupOk, llmC, llmG) ==
  [aiOk |-> aiOk, dbOk |-> dbOk, demoOk |-> demoOk, lookupOk |-> lookupOk,
   llmC |-> llmC, llmG |-> llmG]

\* the reply spoken for a transcript, and the businesses table after the
\* Database() it constructs
generate_voice_response(transcript, language, table, env) ==
  LET error_text == IF language = "french" THEN VoiceErrorFrench ELSE VoiceErrorEnglish
      after == ensure_demo_business(table, env.demoOk)
      lookup == get_business_by_phone(after, VoicePhoneNumber, env.lookupOk)
  IN  IF ~env.aiOk THEN [text |-> error_text, table |-> table]
      ELSE IF ~env.dbOk THEN [text |-> error_text, table |-> table]
      ELSE IF ~lookup.found
      THEN [text |-> IF language = "french" THEN VoiceNoBusinessFrench
                     ELSE VoiceNoBusinessEnglish,
            table |-> after]
      ELSE LET ai_response ==
                 generate_response(transcript, lookup.business, env.llmC, env.llmG).value
               voice_optimized == optimize_for_voice(ai_response.text, language)
           IN  [text |-> IF ai_response.escalate
                         THEN voice_optimized \o
                              (IF language = "french" THEN VoiceTransferFrench
                               ELSE VoiceTransferEnglish)
                         ELSE voice_optimized,
                table |-> after]

\* audio: None, the speech synthesised for a text with the voice of a
\* language, or the 1000 zero bytes returned when the TTS API raises
NoAudio == [is_none |-> TRUE, kind |-> "", voice |-> "", text |-> ""]
Silence == [is_none |-> FALSE, kind |-> "silence", voice |-> "", text |-> ""]

text_to_speech(text, language, ttsOk) ==
  IF ttsOk
  THEN [is_none |-> FALSE, kind |-> "speech",
        voice |-> IF language = "french" THEN "fr-CA-Neural2-A" ELSE "en-US-Standard-C",
        text |-> text]
  ELSE Silence

NewContext == [language |-> "auto", conversation_history |-> << >>]

\* the history of a call, empty when the call has no context
HistoryOf(contexts, call_sid) ==
  IF call_sid \in DOMAIN contexts THEN contexts[call_sid].conversation_history
  ELSE << >>

NoVoiceCall ==
  [call_sid |-> "", recognition |-> SpeechNoResult, transcript |-> None,
   steps |-> << >>, audio |-> NoAudio, history_before |-> << >>]

\* the order of the steps of handle_voice_stream once there is a transcript:
\* speech_to_text, generate_voice_response, text_to_speech, return
VoiceSteps == <<"transcribe", "generate", "synthesize", "return">>

\* the Gemini answers a voice reply can meet
VoiceLLMClassifyOutcomes == { LLMError }
LongReply ==
  "Thanks for reaching out! We are open Monday through Saturday from 9am to 7pm? You can book online at any time. Walk-ins are welcome when stylists are available. Free parking is available in our rear lot. Bye"
VoiceLLMGenerateOutcomes == { LLMText(""), LLMText(LongReply) }

\* One audio chunk of a call.  recognition is what the speech API answers;
\* the outcomes of the later calls are drawn when the handler gets that far.
handle_voice_stream(call_sid, recognition) ==
  /\ chunks < MaxChunks
  /\ chunks' = chunks + 1
  /\ LET contexts == IF call_sid \in DOMAIN conversation_contexts
                     THEN conversation_contexts
                     ELSE (call_sid :> NewContext) @@ conversation_contexts
         context == contexts[call_sid]
         transcript == speech_to_text(recognition)
     IN  IF ~Truthy(transcript)
         THEN /\ conversation_contexts' = contexts
              /\ voice_out' = [call_sid |-> call_sid, recognition |-> recognition,
                               transcript |-> transcript,
                               steps |-> <<"transcribe">>, audio |-> NoAudio,
                               history_before |->
                                 HistoryOf(conversation_contexts, call_sid)]
              /\ UNCHANGED businesses
         ELSE \E aiOk \in BOOLEAN :
              \E dbOk \in (IF aiOk THEN BOOLEAN ELSE {TRUE}) :
              \E demoOk \in (IF aiOk /\ dbOk /\ businesses = {} THEN BOOLEAN ELSE {TRUE}) :
              \E lookupOk \in (IF aiOk /\ dbOk THEN BOOLEAN ELSE {TRUE}) :
              \E llmC \in (IF aiOk /\ dbOk /\ lookupOk
                           THEN VoiceLLMClassifyOutcomes ELSE {LLMError}) :
              \E llmG \in (IF aiOk /\ dbOk /\ lookupOk
                           THEN VoiceLLMGenerateOutcomes ELSE {LLMError}) :
              \E detected_language \in {detect_language_from_speech(transcript.text)} :
              \E reply \in {generate_voice_response(
                              transcript.text, detected_language, businesses,
                              VoiceEnv(aiOk, dbOk, demoOk, lookupOk, llmC, llmG))} :
              \E ttsOk \in BOOLEAN :
                /\ conversation_contexts' =
                     [contexts EXCEPT
                        ![call_sid].language = detected_language,
                        ![call_sid].conversation_history =
                          context.conversation_history \o
                            << [speaker |-> "customer", text |-> transcript.text,
                                language |-> detected_language],
                               [speaker |-> "ai", text |-> reply.text,
                                language |-> detected_language] >>]
                /\ voice_out' = [call_sid |-> call_sid, recognition |-> recognition,
                                 transcript |-> transcript,
                                 steps |-> VoiceSteps,
                                 audio |-> text_to_speech(reply.text, detected_language,
                                                          ttsOk),
                                 history_before |->
                                   HistoryOf(conversation_contexts, call_sid)]
                /\ businesses' = reply.table
  /\ UNCHANGED <<componentVars, conversations, smsVars, last_health, aiVars>>

(***************************************************************************)
(* integrations/facebook_api.py: FacebookAPI                               *)
(***************************************************************************)

\* os.getenv(name, default): the default stands in for an unset variable
getenv(value, default) == IF value.is_none THEN default ELSE value

DefaultVerifyToken == Str("localai_verify_token")

\* FacebookAPI.__init__: three instance attributes read from the environment
\* and the base url; one of them is named verify_token, as the method is
FacebookAPI(access_token, verify_token_env, app_secret) ==
  [access_token |-> access_token,
   verify_token |-> getenv(verify_token_env, DefaultVerifyToken),
   app_secret   |-> app_secret,
   base_url     |-> Str("https://graph.facebook.com/v18.0")]

\* FacebookAPI.verify_webhook: True with or without an app secret; nothing in
\* its try block can raise
verify_webhook(self, webhook_data) ==
  IF ~Truthy(self.app_secret) THEN TRUE ELSE TRUE

\* FacebookAPI.verify_token, the method of the class
verify_token(self, token) == token = self.verify_token

\* the expression obj.verify_token(token): the attribute is looked up in the
\* instance first, and the method of the class only when the instance has no
\* attribute of that name; calling a str raises TypeError
CallVerifyToken(obj, token) ==
  IF "verify_token" \in DOMAIN obj
  THEN [raised |-> TRUE, value |-> FALSE]
  ELSE [raised |-> FALSE, value |-> verify_token(obj, token)]

\* main.py and EnhancedVoiceSystem before anything has happened
QuietMain ==
  /\ started = FALSE
  /\ ai_processor = FALSE /\ database = FALSE
  /\ twilio_sms = FALSE /\ facebook_api = FALSE
  /\ twilio_client = FALSE
  /\ conversations = << >>
  /\ sms_sent = << >>
  /\ requests = << >>
  /\ background_tasks = << >>
  /\ last_health = NoHealth
  /\ conversation_contexts = << >>
  /\ voice_out = NoVoiceCall
  /\ chunks = 0

\* webhook_handler.py imported with an empty environment, no request yet
QuietHook ==
  /\ facebook = FacebookAPI(None, None, None)
  /\ twilio = FALSE
  /\ hook_requests = << >>
  /\ hook_tasks = << >>
  /\ hook_sms_sent = << >>

\* no websocket connected, no status callback received
QuietStream ==
  /\ audio_buffer = << >>
  /\ stream = << >>
  /\ status_log = << >>
  /\ voice_system = FALSE

\* send_bulk_sms was not called
NoBulk == [called |-> FALSE]

\* no call of the functions that are used on their own
QuietLater ==
  /\ bulk_out = NoBulk
  /\ tv_turns = << >>
  /\ db_ctors = << >>
  /\ bookings = << >>
  /\ booking_out = [op |-> "none"]
  /\ recent_out = [called |-> FALSE]

Quiet == QuietMain /\ QuietHook /\ QuietStream /\ QuietLater

\* the module is imported: the globals are None and nothing has happened
Init ==
  /\ Quiet
  /\ businesses \in InitialTables
  /\ ai_pc = "idle" /\ ai_in = [message |-> ""] /\ ai_out = [raised |-> FALSE]

\* startup, the SMS webhook and its background tasks
Next ==
  \/ \E fail_at \in FailPoints, demoOk \in BOOLEAN, credentials \in BOOLEAN :
       InitializeComponents(fail_at, demoOk, credentials)
  \/ \E form \in SmsForms, formOk \in BOOLEAN :
       handle_sms_webhook(form, formOk)
  \/ \E t \in DOMAIN background_tasks, lookupOk \in BOOLEAN :
       process_sms_message(t, lookupOk)

Spec == Init /\ [][Next]_vars

\* startup, SMS requests arriving, and GET /health asked at any moment
NextHealth ==
  \/ \E fail_at \in FailPoints, demoOk \in BOOLEAN, credentials \in BOOLEAN :
       InitializeComponents(fail_at, demoOk, credentials)
  \/ \E form \in SmsForms, formOk \in BOOLEAN :
       handle_sms_webhook(form, formOk)
  \/ \E llm \in HealthLLMOutcomes, dbOk \in BOOLEAN :
       health_check(llm[1], llm[2], dbOk)

SpecHealth == Init /\ [][NextHealth]_vars

\* the event loop runs every task the framework has started: a task that can
\* run does run
SpecTasks ==
  /\ Init /\ [][Next]_vars
  /\ \A t \in 1..MaxRequests :
       WF_vars(\E lookupOk \in BOOLEAN : process_sms_message(t, lookupOk))

(***************************************************************************)
(* Properties of the SMS webhook and of /health (specification Spec)       *)
(***************************************************************************)

TasksOf(i) == {t \in DOMAIN background_tasks : background_tasks[t].request = i}

\* the request was answered 200 with an empty body and has exactly one task,
\* which carries the request's four fields
AnsweredAndScheduled(i) ==
  /\ requests[i].status_code = 200
  /\ requests[i].body = ""
  /\ Cardinality(TasksOf(i)) = 1
  /\ \A t \in TasksOf(i) :
       LET d == background_tasks[t].sms_data
           f == requests[i].form
       IN  /\ d.From = f.From
           /\ d.To = f.To
           /\ d.Body = (IF f.Body.is_none THEN "" ELSE f.Body.text)
           /\ d.MessageSid = f.MessageSid

\* C1 as stated: with ai_processor, database and twilio_sms initialised,
\* every POST /webhook/sms is answered 200 with an empty body and has exactly
\* one task carrying its From, To, Body and MessageSid, whatever the task
\* has done since.
C1_EveryPostAnswered200 ==
  (ai_processor /\ database /\ twilio_sms) =>
    \A i \in DOMAIN requests : AnsweredAndScheduled(i)

\* C1 amended: with the three components initialised, every POST
\* /webhook/sms whose form could be read is answered 200 with an empty body
\* and has exactly one task carrying its From, To, Body (default "") and
\* MessageSid, in every state, whether the task is still scheduled or has
\* finished with any outcome; a POST whose form could not be read is
\* answered 500 "Error" and has no task.
C1_ReadablePostAnswered200 ==
  (ai_processor /\ database /\ twilio_sms) =>
    \A i \in DOMAIN requests :
      IF requests[i].form_raised
      THEN /\ requests[i].status_code = 500
           /\ requests[i].body = "Error"
           /\ TasksOf(i) = {}
      ELSE AnsweredAndScheduled(i)

\* two requests answered 200: the task of one has not run yet, the task of
\* the other has finished without logging or sending
C1_Witness ==
  /\ ai_processor /\ database /\ twilio_sms
  /\ \E i, j \in DOMAIN requests :
       /\ requests[i].status_code = 200 /\ requests[j].status_code = 200
       /\ \E t \in TasksOf(i) : background_tasks[t].state = "scheduled"
       /\ \E t \in TasksOf(j) :
            /\ background_tasks[t].state = "done"
            /\ background_tasks[t].run.found
            /\ ~background_tasks[t].run.log_ok
            /\ ~background_tasks[t].run.success

Processed == {t \in DOMAIN background_tasks :
                background_tasks[t].state = "done" /\ background_tasks[t].run.found}

Occurrences(steps, a) == {i \in DOMAIN steps : steps[i] = a}

Before(steps, a, b) ==
  \A i \in Occurrences(steps, a), j \in Occurrences(steps, b) : i < j

Once(steps, a) == Cardinality(Occurrences(steps, a)) = 1

\* the steps up to the reply: classify, build the prompt, and ask Gemini
\* for the reply when the prompt could be built
ReplySteps(steps) ==
  /\ Once(steps, "classify") /\ Once(steps, "prompt")
  /\ Cardinality(Occurrences(steps, "generate")) <= 1
  /\ Before(steps, "classify", "prompt")
  /\ Before(steps, "prompt", "generate")

\* C2 as stated: for every SMS processed for a configured business the
\* steps are classify, prompt, generate, send, log, in that order: the send
\* precedes the log.
C2_SendPrecedesLog ==
  \A t \in Processed :
    LET steps == background_tasks[t].run.steps
    IN  /\ ReplySteps(steps)
        /\ Once(steps, "send") /\ Once(steps, "log")
        /\ Before(steps, "prompt", "send") /\ Before(steps, "generate", "send")
        /\ Before(steps, "send", "log")

\* C2 amended: for every SMS processed for a configured business the steps
\* are classify, prompt, generate, log, send, in that order: the
\* conversation row is logged before the reply is sent.
C2_LogPrecedesSend ==
  \A t \in Processed :
    LET steps == background_tasks[t].run.steps
    IN  /\ ReplySteps(steps)
        /\ Once(steps, "send") /\ Once(steps, "log")
        /\ Before(steps, "prompt", "log") /\ Before(steps, "generate", "log")
        /\ Before(steps, "log", "send")

\* an SMS was processed, Gemini was asked for the reply, the row was written
\* and the SDK was called
C2_Witness ==
  \E t \in Processed :
    /\ Occurrences(background_tasks[t].run.steps, "generate") # {}
    /\ background_tasks[t].run.log_ok
    /\ background_tasks[t].run.sdk_calls = 1
    /\ Len(conversations) >= 1 /\ Len(sms_sent) >= 1

\* the row the task writes
RowOf(t) ==
  LET task == background_tasks[t]
  IN  [business_id |-> task.run.business_id,
       customer_phone |-> IF task.sms_data.From.is_none THEN ""
                          ELSE task.sms_data.From.text,
       platform |-> "sms",
       inbound_message |-> strip(task.sms_data.Body),
       outbound_message |-> task.run.ai_response.text,
       intent |-> task.run.ai_response.intent,
       ai_confidence |-> task.run.ai_response.confidence,
       escalated |-> task.run.ai_response.escalate]

Rows(row) == {i \in DOMAIN conversations : conversations[i] = row}

\* the business a task's To number designates is the one configured for it
MatchesBusiness(t) ==
  \E b \in businesses :
    /\ ~background_tasks[t].sms_data.To.is_none
    /\ b.phone = background_tasks[t].sms_data.To.text
    /\ b.id = background_tasks[t].run.business_id

\* C3 as stated: every SMS processed for a configured business has added
\* exactly one row: there are as many rows as processed messages, and each
\* message's row is there.
C3_OneRowPerProcessedSms ==
  /\ Len(conversations) = Cardinality(Processed)
  /\ \A t \in Processed : Rows(RowOf(t)) # {}

\* C3 amended: every SMS processed for a configured business adds at most
\* one row, and exactly one when the INSERT succeeds: the rows are as many
\* as the processed messages whose INSERT succeeded, each of these has its
\* row (the business's id, platform sms, the stripped inbound text, and the
\* text, intent, confidence and escalate of the AIResponse), every row is
\* the row of such a message, and a message whose To number matches no
\* business adds none.
C3_OneRowPerLoggedSms ==
  LET Logged == {t \in Processed : background_tasks[t].run.log_ok}
  IN  /\ Len(conversations) = Cardinality(Logged)
      /\ \A t \in Logged :
           /\ MatchesBusiness(t)
           /\ Cardinality(Rows(RowOf(t))) =
                Cardinality({u \in Logged : RowOf(u) = RowOf(t)})
      /\ \A i \in DOMAIN conversations : \E t \in Logged : conversations[i] = RowOf(t)

\* one message was processed and logged with an escalated AIResponse while
\* another matched no business
C3_Witness ==
  /\ Len(conversations) = 1
  /\ conversations[1].escalated
  /\ \E t \in Processed : background_tasks[t].run.log_ok
  /\ \E t \in DOMAIN background_tasks :
       background_tasks[t].state = "done" /\ ~background_tasks[t].run.found

AllInitialised == ai_processor /\ database /\ twilio_sms /\ facebook_api

\* C10: every answer of GET /health has status 200, whatever the components'
\* state; its status is "healthy" exactly when the four components are
\* initialised and neither probe raised, and "degraded" otherwise.
C10_HealthAlways200 ==
  last_health.status_code # 0 =>
    /\ last_health.status_code = 200
    /\ last_health.status \in {"healthy", "degraded"}
    /\ last_health.status = "healthy" <=>
         (AllInitialised /\ ~last_health.ai_probe_raised
                         /\ ~last_health.db_probe_raised)

\* /health was asked while the AI processor and the database were there but
\* Twilio was not
C10_Witness ==
  /\ ai_processor /\ database /\ ~twilio_sms
  /\ last_health.status_code = 200
  /\ last_health.status = "degraded"
  /\ last_health.components.database = "Connected"

\* /health was asked with every component initialised
C10_WitnessHealthy ==
  /\ AllInitialised
  /\ last_health.status_code = 200
  /\ last_health.status = "healthy"

(***************************************************************************)
(* AIProcessor called on its own (health probe, voice replies, the message *)
(* processor of webhook_handler.py)                                        *)
(***************************************************************************)

NoCall == [message |-> ""]

AIIdle ==
  /\ ai_pc = "idle"
  /\ ai_in = NoCall
  /\ ai_out = [raised |-> FALSE]

CallClassifyIntent(message, business, llmC) ==
  /\ ai_pc = "idle"
  /\ ai_pc' = "classified"
  /\ ai_in' = [message |-> message, business |-> business,
               llmC |-> llmC, llmG |-> LLMError]
  /\ ai_out' = classify_intent(message, business, llmC)
  /\ UNCHANGED <<componentVars, dbVars, smsVars, last_health, voiceVars,
               hookVars, laterVars, streamVars>>

CallGenerateResponse(message, business, llmC, llmG) ==
  /\ ai_pc = "idle"
  /\ ai_pc' = "responded"
  /\ ai_in' = [message |-> message, business |-> business,
               llmC |-> llmC, llmG |-> llmG]
  /\ ai_out' = generate_response(message, business, llmC, llmG)
  /\ UNCHANGED <<componentVars, dbVars, smsVars, last_health, voiceVars,
               hookVars, laterVars, streamVars>>

AIReturn ==
  /\ ai_pc # "idle"
  /\ ai_pc' = "idle"
  /\ ai_in' = NoCall
  /\ ai_out' = [raised |-> FALSE]
  /\ UNCHANGED <<componentVars, dbVars, smsVars, last_health, voiceVars,
               hookVars, laterVars, streamVars>>

AIBusinesses == {BusinessDict("demo_salon_001", "+1234567890", sv) : sv \in ServicesValues}

AIInit ==
  /\ AIIdle
  /\ Quiet
  /\ businesses = {}

AINext ==
  \/ \E m \in Messages, b \in AIBusinesses, c \in LLMClassifyOutcomes :
       CallClassifyIntent(m, b, c)
  \/ \E m \in Messages, b \in AIBusinesses, c \in LLMClassifyOutcomes,
        g \in LLMGenerateOutcomes :
       CallGenerateResponse(m, b, c, g)
  \/ AIReturn

SpecAI == AIInit /\ [][AINext]_vars

(***************************************************************************)
(* Properties of AIProcessor (checked under SpecAI)                        *)
(***************************************************************************)

\* the classification a finished call made
Classification == IF ai_pc = "classified" THEN ai_out ELSE ai_out.classification

LLMFails(o) == o.kind = "error" \/ o.text = ""

FallbackFor(language) == IF language = "french" THEN FrenchFallback ELSE EnglishFallback
ErrorTextFor(language) == IF language = "french" THEN FrenchErrorText ELSE EnglishErrorText

\* building the reply prompt joins the services for a booking (both
\* languages) and for an English faq
PromptJoinsServices(language, intent) ==
  intent = "booking" \/ (language = "english" /\ intent = "faq")

\* C4 as stated: generate_response never raises, its text is never empty,
\* and when every LLM call fails or returns empty text the text is the
\* fallback string of the detected language with the classification's intent
\* and confidence.
C4_FallbackAlways ==
  ai_pc = "responded" =>
    /\ ~ai_out.raised
    /\ ai_out.value.text # ""
    /\ (LLMFails(ai_in.llmC) /\ LLMFails(ai_in.llmG)) =>
         /\ ai_out.value.text = FallbackFor(detect_language(ai_in.message))
         /\ ai_out.value.intent = ai_out.classification.value.intent
         /\ ai_out.value.confidence = ai_out.classification.value.confidence

\* C4 amended: generate_response never raises and its text is never empty;
\* when every LLM call fails or returns empty text, the text is the fallback
\* string of the detected language with the classification's intent and
\* confidence provided the reply prompt could be built; when building it
\* raised (the services of the business are not a list of strings and the
\* prompt joins them) the text is the generator's fixed error reply in the
\* detected language, the intent is the classification's and the confidence
\* is 0.6.
C4_FallbackUnlessPromptRaises ==
  ai_pc = "responded" =>
    LET language == detect_language(ai_in.message)
        intent == ai_out.classification.value
        promptRaised == /\ JoinRaises(ai_in.business.services)
                        /\ PromptJoinsServices(language, intent.intent)
    IN  /\ ~ai_out.raised
        /\ ai_out.value.text # ""
        /\ ai_out.value.intent = intent.intent
        /\ (LLMFails(ai_in.llmC) /\ LLMFails(ai_in.llmG) /\ ~promptRaised) =>
             /\ ai_out.value.text = FallbackFor(language)
             /\ ai_out.value.confidence = intent.confidence
        /\ promptRaised =>
             /\ ai_out.value.text = ErrorTextFor(language)
             /\ ai_out.value.confidence = Conf(6, 10)

C4_Witness ==
  /\ ai_pc = "responded"
  /\ ai_in.llmC = LLMError /\ ai_in.llmG = LLMText("")
  /\ ai_out.classification.via = "ai"
  /\ ai_out.value.text = FrenchFallback

\* C5: an AIResponse with intent 'complaint' has escalate = true, and
\* escalate equals (requires_escalation or intent = 'complaint') on every
\* path of the generators, their except clauses included.
C5_EscalateOnEveryPath ==
  ai_pc = "responded" =>
    /\ ai_out.value.intent = "complaint" => ai_out.value.escalate
    /\ ai_out.value.escalate =
         (ai_out.classification.value.requires_escalation
            \/ ai_out.value.intent = "complaint")

\* some bucket's matched fraction is above 0.2
SomeBucketAboveFifth(message) ==
  LET ml == lower(message) IN
  \E k \in DOMAIN intent_keywords :
    5 * Cardinality({i \in DOMAIN intent_keywords[k] :
                       Contains(intent_keywords[k][i], ml)})
      > Len(intent_keywords[k])

\* C6: classify_intent takes the keyword result, without calling the LLM
\* classifier, exactly when the best matched fraction is strictly above
\* 0.2; otherwise it calls the LLM classifier once and returns its result.
C6_KeywordPathIffAboveFifth ==
  ai_pc # "idle" =>
    LET c == Classification IN
    /\ c.via = "keyword" <=> SomeBucketAboveFifth(ai_in.message)
    /\ c.via = "keyword" => c.ai_classify_calls = 0 /\ c.llm_calls = 0
    /\ c.via # "keyword" =>
         /\ c.via = "ai" /\ c.ai_classify_calls = 1 /\ c.llm_calls <= 1
         /\ c.value = ai_classify_intent(ai_in.message, ai_in.business, ai_in.llmC).value
         /\ (ai_in.llmC = LLMText(JsonComplaint) /\ ~JoinRaises(ai_in.business.services)) =>
              c.value.intent = "complaint" /\ c.value.confidence = Conf(9, 10)

\* a fraction of exactly 0.2 goes to the LLM classifier
C6_Witness ==
  /\ ai_pc = "classified"
  /\ ai_in.message = "cancel or reschedule"
  /\ ai_out.via = "ai" /\ ai_out.ai_classify_calls = 1

\* how many entries of each bucket's list occur in the lowercased message
Matched(message) ==
  LET ml == lower(message) IN
  [k \in DOMAIN intent_keywords |->
     Cardinality({i \in DOMAIN intent_keywords[k] :
                    Contains(intent_keywords[k][i], ml)})]

Position(k) == CHOOSE i \in DOMAIN IntentOrder : IntentOrder[i] = k

\* C7: on the keyword path the intent is the bucket with the highest
\* matched fraction, the first of booking, faq, complaint, cancellation on
\* a tie, and the confidence is min(2 * fraction, 1.0), which is above 0.4
\* and at most 1.0.
C7_TopBucketAndConfidence ==
  (ai_pc # "idle" /\ Classification.via = "keyword") =>
    LET v == Classification.value
        t == v.intent
        matched == Matched(ai_in.message)
        n == matched[t]
        d == Len(intent_keywords[t])
    IN  /\ t \in DOMAIN intent_keywords
        /\ \A k \in DOMAIN intent_keywords :
             /\ matched[k] * d <= n * Len(intent_keywords[k])
             /\ Position(k) < Position(t) =>
                  matched[k] * d < n * Len(intent_keywords[k])
        /\ IF 2 * n <= d
             THEN v.confidence.num * d = 2 * n * v.confidence.den
             ELSE v.confidence.num = v.confidence.den
        /\ 5 * v.confidence.num > 2 * v.confidence.den
        /\ v.confidence.num <= v.confidence.den

\* booking and complaint tie at 6/28 and booking, the first, is returned
C7_Witness ==
  /\ ai_pc = "classified"
  /\ Matched(ai_in.message)["booking"] = 6
  /\ Matched(ai_in.message)["complaint"] = 6
  /\ ai_out.via = "keyword" /\ ai_out.value.intent = "booking"
  /\ ai_out.value.confidence = Conf(12, 28)

TwoFrenchWords(message) ==
  LET ml == lower(message)
      found == {i \in DOMAIN french_words : Contains(french_words[i], ml)}
  IN  \E i, j \in found : i # j

\* C8: detect_language is 'french' exactly when at least two entries of the
\* French word list occur in the lowercased message, and generate_response
\* replies with the French generator exactly when it is.
C8_FrenchIffTwoWords ==
  ai_pc = "responded" =>
    /\ ai_out.language = "french" <=> TwoFrenchWords(ai_in.message)
    /\ ai_out.language # "french" => ai_out.language = "english"
    /\ ai_out.generator = "french" <=> ai_out.language = "french"
    /\ ai_out.value.text \in {FrenchFallback, FrenchErrorText} =>
         ai_out.language = "french"

\* capitals are lowered before the words are looked for; one word is not
\* enough
C8_Witness ==
  /\ ai_pc = "responded"
  /\ ai_in.message = "Bonjour, je voudrais un rendez-vous"
  /\ ai_out.language = "french" /\ ai_out.generator = "french"

C8_WitnessEnglish ==
  /\ ai_pc = "responded"
  /\ ai_in.message = "merci"
  /\ ai_out.language = "english" /\ ai_out.generator = "english"

(***************************************************************************)
(* The voice system on its own: audio chunks of calls                      *)
(***************************************************************************)

NextVoice ==
  \E call_sid \in CallSids, recognition \in SpeechOutcomes :
    handle_voice_stream(call_sid, recognition) /\ UNCHANGED <<hookVars, laterVars, streamVars>>

SpecVoice == Init /\ [][NextVoice]_vars

\* transcription yields nothing: an error of the speech API, no result, or
\* a confidence of at most 0.6
YieldsNothing(recognition) ==
  \/ recognition.kind \in {"error", "no_result"}
  \/ recognition.confidence <= 60

\* C9: for every audio chunk the steps of handle_voice_stream are a prefix
\* of transcribe, generate, synthesize, return, in that order; when
\* transcription yields nothing only the transcription runs, None is
\* returned and the call's history is what it was; when there is a
\* transcript the whole chain runs, audio is returned and the history has
\* the customer's words and the reply.
C9_VoiceChainInOrder ==
  voice_out.call_sid # "" =>
    LET history == HistoryOf(conversation_contexts, voice_out.call_sid)
    IN  /\ \A a, b \in DOMAIN VoiceSteps :
             (a < b) => Before(voice_out.steps, VoiceSteps[a], VoiceSteps[b])
        /\ \A a \in DOMAIN VoiceSteps :
             Cardinality(Occurrences(voice_out.steps, VoiceSteps[a])) <= 1
        /\ \A i \in DOMAIN voice_out.steps :
             \E a \in DOMAIN VoiceSteps : voice_out.steps[i] = VoiceSteps[a]
        /\ Once(voice_out.steps, "transcribe")
        /\ YieldsNothing(voice_out.recognition) =>
             /\ Occurrences(voice_out.steps, "generate") = {}
             /\ Occurrences(voice_out.steps, "synthesize") = {}
             /\ Occurrences(voice_out.steps, "return") = {}
             /\ voice_out.audio.is_none
             /\ history = voice_out.history_before
        /\ ~voice_out.audio.is_none =>
             /\ Once(voice_out.steps, "generate")
             /\ Once(voice_out.steps, "synthesize")
             /\ Once(voice_out.steps, "return")
             /\ Len(history) = Len(voice_out.history_before) + 2
             /\ history[Len(history)].speaker = "ai"
             /\ voice_out.audio.kind = "speech" =>
                  voice_out.audio.text = history[Len(history)].text

\* a chunk recognised with a confidence of exactly 0.6 arrives on a call
\* that already has a customer utterance and a reply in its history
C9_Witness ==
  /\ voice_out.recognition.kind = "result"
  /\ voice_out.recognition.confidence = 60
  /\ voice_out.audio.is_none
  /\ Len(voice_out.history_before) = 2
  /\ voice_out.call_sid \in DOMAIN conversation_contexts

(***************************************************************************)
(* webhook_handler.py: the router of the SMS and Facebook webhooks         *)
(***************************************************************************)

MaxHookRequests == 2

NoQuery == [mode |-> None, challenge |-> None, verify_token |-> None]

\* an exchange of the router: what came in and what was answered; added holds
\* the message_data of the add_task calls the handler made
HookExchange(route, query, payload, status_code, body, detail, added) ==
  [route |-> route, query |-> query, payload |-> payload,
   status_code |-> status_code, body |-> body, detail |-> detail,
   added |-> added]

\* the query strings of GET /webhook/facebook: each parameter present or not
HubQueries ==
  [mode : {None, Str("subscribe"), Str("unsubscribe")},
   challenge : {None, Str("1158201444")},
   verify_token : {None, DefaultVerifyToken, Str("s3cret")}]

\* GET /webhook/facebook. Nothing catches what the condition raises, and the
\* framework answers an uncaught exception with 500 Internal Server Error
verify_facebook_webhook(query) ==
  /\ Len(hook_requests) < MaxHookRequests
  /\ LET hub_mode == query.mode
         hub_challenge == query.challenge
         hub_verify_token == query.verify_token
         call == CallVerifyToken(facebook, hub_verify_token)
         answer ==
           IF hub_mode = Str("subscribe")
           THEN IF call.raised
                THEN [status_code |-> 500, body |-> "Internal Server Error",
                      detail |-> ""]
                ELSE IF call.value
                THEN [status_code |-> 200, body |-> hub_challenge.text,
                      detail |-> ""]
                ELSE [status_code |-> 403, body |-> "",
                      detail |-> "Invalid verification token"]
           ELSE [status_code |-> 403, body |-> "",
                 detail |-> "Invalid verification token"]
     IN  hook_requests' = Append(hook_requests,
           HookExchange("GET /webhook/facebook", query, << >>,
                        answer.status_code, answer.body, answer.detail, << >>))
  /\ UNCHANGED <<componentVars, dbVars, smsVars, last_health, aiVars, voiceVars,
                 facebook, twilio, hook_tasks, hook_sms_sent, streamVars, laterVars>>

\* messaging events as Messenger posts them (dicts are functions on their keys)
EvText ==
  [sender |-> [id |-> "U1"], recipient |-> [id |-> "P1"],
   message |-> [mid |-> "m1", text |-> "hello"]]
\* a message with an attachment has no text
EvAttachment ==
  [sender |-> [id |-> "U2"], recipient |-> [id |-> "P1"],
   message |-> [mid |-> "m2"]]
\* a delivery receipt has no message
EvDelivery ==
  [sender |-> [id |-> "U3"], recipient |-> [id |-> "P1"],
   delivery |-> [watermark |-> "1"]]
\* a message without a mid: nothing checks who posts, so any JSON can arrive
EvNoMid ==
  [sender |-> [id |-> "U4"], recipient |-> [id |-> "P1"],
   message |-> [text |-> "hi"]]

\* the bodies of POST /webhook/facebook, in a tuple: entries with and without
\* a messaging list, a body without entries
FacebookPayloads ==
  << [object |-> "page"],
     [object |-> "page", entry |-> << [id |-> "P1", changes |-> "feed"] >>],
     [object |-> "page",
      entry |-> << [id |-> "P1", messaging |-> <<EvText, EvDelivery>>],
                   [id |-> "P1", messaging |-> <<EvAttachment>>] >>],
     [object |-> "page",
      entry |-> << [id |-> "P1", messaging |-> <<EvAttachment, EvText>>] >>],
     [object |-> "page",
      entry |-> << [id |-> "P1", messaging |-> <<EvText, EvNoMid>>] >>] >>

\* dict.get(key, []) for the two lists of the payload
GetList(dict, key) == IF key \in DOMAIN dict THEN dict[key] ELSE << >>

\* the events the two nested for loops visit, in the order they visit them
RECURSIVE EventsFrom(_, _)
EventsFrom(entries, i) ==
  IF i > Len(entries) THEN << >>
  ELSE GetList(entries[i], "messaging") \o EventsFrom(entries, i + 1)

MessagingEvents(data) == EventsFrom(GetList(data, "entry"), 1)

\* the subscripts of the message_data literal that raise KeyError
MessageDataRaises(message_event) ==
  \/ "sender" \notin DOMAIN message_event
  \/ "recipient" \notin DOMAIN message_event
  \/ "mid" \notin DOMAIN message_event.message

MessageData(message_event) ==
  [from |-> message_event.sender.id,
   to |-> message_event.recipient.id,
   body |-> IF "text" \in DOMAIN message_event.message
            THEN message_event.message.text ELSE "",
   platform |-> "facebook",
   message_id |-> message_event.message.mid]

\* the loop body over the events from the i-th on: add_task for an event with
\* a message, stop at the first exception
RECURSIVE AddTasksFrom(_, _, _)
AddTasksFrom(events, i, added) ==
  IF i > Len(events) THEN [raised |-> FALSE, added |-> added]
  ELSE IF "message" \in DOMAIN events[i]
  THEN IF MessageDataRaises(events[i])
       THEN [raised |-> TRUE, added |-> added]
       ELSE AddTasksFrom(events, i + 1, Append(added, MessageData(events[i])))
  ELSE AddTasksFrom(events, i + 1, added)

HookTask(fn, message_data, request) ==
  [fn |-> fn, message_data |-> message_data, request |-> request,
   done |-> FALSE, result |-> << >>, steps |-> << >>, calls |-> << >>]

RECURSIVE TasksFor(_, _, _, _)
TasksFor(fn, added, request, i) ==
  IF i > Len(added) THEN << >>
  ELSE <<HookTask(fn, added[i], request)>> \o TasksFor(fn, added, request, i + 1)

\* POST /webhook/facebook. The HTTPException(403) is raised inside the try, and
\* except Exception turns whatever is raised there into a 500. The tasks added
\* run after a normal response only: the framework attaches them to the
\* response the handler returns
handle_facebook_webhook(data, jsonOk) ==
  /\ Len(hook_requests) < MaxHookRequests
  /\ LET loop == AddTasksFrom(MessagingEvents(data), 1, << >>)
         request == Len(hook_requests) + 1
     IN  IF ~jsonOk
         THEN /\ hook_requests' = Append(hook_requests,
                   HookExchange("POST /webhook/facebook", NoQuery, << >>, 500, "",
                                "Webhook processing failed", << >>))
              /\ UNCHANGED hook_tasks
         ELSE IF ~verify_webhook(facebook, data)
         THEN /\ hook_requests' = Append(hook_requests,
                   HookExchange("POST /webhook/facebook", NoQuery, data, 500, "",
                                "Webhook processing failed", << >>))
              /\ UNCHANGED hook_tasks
         ELSE IF loop.raised
         THEN /\ hook_requests' = Append(hook_requests,
                   HookExchange("POST /webhook/facebook", NoQuery, data, 500, "",
                                "Webhook processing failed", loop.added))
              /\ UNCHANGED hook_tasks
         ELSE /\ hook_requests' = Append(hook_requests,
                   HookExchange("POST /webhook/facebook", NoQuery, data, 200,
                                "{status: ok}", "", loop.added))
              /\ hook_tasks' = hook_tasks \o
                   TasksFor("process_and_respond_facebook", loop.added, request, 1)
  /\ UNCHANGED <<componentVars, dbVars, smsVars, last_health, aiVars, voiceVars,
                 facebook, twilio, hook_sms_sent, streamVars, laterVars>>

\* process_and_respond_facebook: the function has a docstring and no statement
process_and_respond_facebook(t) ==
  /\ hook_tasks[t].fn = "process_and_respond_facebook"
  /\ ~hook_tasks[t].done
  /\ hook_tasks' = [hook_tasks EXCEPT ![t].done = TRUE]
  /\ UNCHANGED <<componentVars, dbVars, smsVars, last_health, aiVars, voiceVars,
                 facebook, twilio, hook_requests, hook_sms_sent, streamVars, laterVars>>

\* the methods class Database defines (database.py)
DatabaseMethods ==
  {"get_connection", "init_database", "ensure_demo_business",
   "get_business_by_phone", "log_conversation", "get_conversation_stats",
   "get_recent_conversations", "create_booking", "get_bookings_for_business",
   "update_booking_status", "log_analytics", "get_analytics"}

\* the names webhook_handler.py binds at module level
ModuleNames ==
  {"webhook_router", "ai_processor", "db", "twilio", "facebook", "logger",
   "MessageProcessor", "message_processor", "handle_sms_webhook",
   "handle_facebook_webhook", "verify_facebook_webhook",
   "process_and_respond_sms", "process_and_respond_facebook"}

\* what process_message returns: the keys of the dict and their values, the
\* steps of the pipeline it entered and the interactions it logged
ProcessError(text, steps) ==
  [keys |-> {"error"}, error |-> text, response_text |-> "", intent |-> "",
   escalate |-> FALSE, booking_created |-> FALSE,
   steps |-> steps, logged |-> 0]

ProcessResult(response_text, intent, escalate, booking_created, steps) ==
  [keys |-> {"response_text", "intent", "escalate", "booking_created"},
   error |-> "", response_text |-> response_text, intent |-> intent,
   escalate |-> escalate, booking_created |-> booking_created,
   steps |-> steps, logged |-> 1]

\* MessageProcessor.process_message. Everything is inside one try whose except
\* returns {"error": str(e)}. After the business is found the code calls
\* db.get_conversation, which class Database does not define; further on it
\* calls db.log_interaction, not defined either, and subscripts the AIResponse
\* dataclass that generate_response returns (the intent it compares with
\* 'booking', 'faq' and 'complaint' is a MessageIntent, equal to no str)
process_message(message_data, table, lookupOk) ==
  IF message_data.body.is_none
  THEN ProcessError("'NoneType' object has no attribute 'strip'", <<"extract">>)
  ELSE LET customer_phone == message_data.from
           business_phone == message_data.to
           message_text == strip(message_data.body.text)
           lookup == get_business_by_phone(table, business_phone, lookupOk)
       IN  IF ~lookup.found
           THEN ProcessError("Business not configured", <<"extract", "business">>)
           ELSE IF "get_conversation" \notin DatabaseMethods
           THEN ProcessError(
                  "'Database' object has no attribute 'get_conversation'",
                  <<"extract", "business", "conversation">>)
           ELSE IF "log_interaction" \notin DatabaseMethods
           THEN ProcessError(
                  "'Database' object has no attribute 'log_interaction'",
                  <<"extract", "business", "conversation", "classify",
                    "respond", "log">>)
           ELSE ProcessError(
                  "'AIResponse' object is not subscriptable",
                  <<"extract", "business", "conversation", "classify",
                    "respond", "log">>)

\* POST /webhook/sms of the router: the form fields become message_data, one
\* task is added, the answer is an empty 200; a form that cannot be read is
\* answered 500
router_handle_sms_webhook(form, formOk) ==
  /\ Len(hook_requests) < MaxHookRequests
  /\ LET message_data == [from |-> form.From, to |-> form.To, body |-> form.Body,
                          platform |-> "sms", message_sid |-> form.MessageSid]
         request == Len(hook_requests) + 1
     IN  IF formOk
         THEN /\ hook_requests' = Append(hook_requests,
                   HookExchange("POST /webhook/sms", NoQuery, form, 200, "", "",
                                <<message_data>>))
              /\ hook_tasks' = Append(hook_tasks,
                   HookTask("process_and_respond_sms", message_data, request))
         ELSE /\ hook_requests' = Append(hook_requests,
                   HookExchange("POST /webhook/sms", NoQuery, << >>, 500, "",
                                "Webhook processing failed", << >>))
              /\ UNCHANGED hook_tasks
  /\ UNCHANGED <<componentVars, dbVars, smsVars, last_health, aiVars, voiceVars,
                 facebook, twilio, hook_sms_sent, streamVars, laterVars>>

\* process_and_respond_sms: the background task of the router. The SMS goes
\* out only when the result has no 'error' key; notify_business_owner is a
\* name the module does not bind, so calling it raises NameError, which the
\* except clause of the task logs
process_and_respond_sms(t, lookupOk) ==
  /\ hook_tasks[t].fn = "process_and_respond_sms"
  /\ ~hook_tasks[t].done
  /\ LET message_data == hook_tasks[t].message_data
         result == process_message(message_data, businesses, lookupOk)
     IN  IF "error" \notin result.keys
         THEN \E sdkOk \in (IF twilio THEN BOOLEAN ELSE {TRUE}) :
              LET sms_result == send_sms(twilio, message_data.from, message_data.to,
                                         result.response_text, sdkOk)
                  notify == IF ~result.escalate THEN << >>
                            ELSE IF "notify_business_owner" \in ModuleNames
                            THEN <<"notify">> ELSE <<"NameError">>
              IN  /\ hook_sms_sent' = hook_sms_sent \o sms_result.calls
                  /\ hook_tasks' =
                       [hook_tasks EXCEPT
                          ![t].done = TRUE, ![t].result = result,
                          ![t].steps = <<"process", "send">> \o notify,
                          ![t].calls = sms_result.calls]
         ELSE /\ hook_tasks' =
                   [hook_tasks EXCEPT
                      ![t].done = TRUE, ![t].result = result,
                      ![t].steps = <<"process">>]
              /\ UNCHANGED hook_sms_sent
  /\ UNCHANGED <<componentVars, dbVars, smsVars, last_health, aiVars, voiceVars,
                 facebook, twilio, hook_requests, streamVars, laterVars>>

\* the environment the router is imported in: the Facebook variables set or
\* not, the Twilio credentials found or not
HookInit ==
  /\ QuietMain /\ QuietStream /\ QuietLater
  /\ businesses \in InitialTables
  /\ ai_pc = "idle" /\ ai_in = [message |-> ""] /\ ai_out = [raised |-> FALSE]
  /\ facebook \in { FacebookAPI(None, verify_token_env, app_secret) :
                      verify_token_env \in {None, Str("s3cret")},
                      app_secret \in {None, Str("app-secret")} }
  /\ twilio \in BOOLEAN
  /\ hook_requests = << >>
  /\ hook_tasks = << >>
  /\ hook_sms_sent = << >>

NextHook ==
  \/ \E query \in HubQueries : verify_facebook_webhook(query)
  \/ \E p \in DOMAIN FacebookPayloads, jsonOk \in BOOLEAN :
       handle_facebook_webhook(FacebookPayloads[p], jsonOk)
  \/ \E t \in DOMAIN hook_tasks : process_and_respond_facebook(t)
  \/ \E form \in SmsForms, formOk \in BOOLEAN :
       router_handle_sms_webhook(form, formOk)
  \/ \E t \in DOMAIN hook_tasks, lookupOk \in BOOLEAN :
       process_and_respond_sms(t, lookupOk)

SpecHook == HookInit /\ [][NextHook]_vars

\* the GET exchanges of the router
Verifications ==
  {i \in DOMAIN hook_requests : hook_requests[i].route = "GET /webhook/facebook"}

\* C11: GET /webhook/facebook answers 200 with the hub.challenge value exactly
\* when hub.mode is 'subscribe' and hub.verify_token equals the configured
\* verify token, and 403 'Invalid verification token' in every other case
C11_ChallengeIffTokenMatches ==
  \A i \in Verifications :
    LET r == hook_requests[i]
    IN  IF r.query.mode = Str("subscribe")
           /\ r.query.verify_token = facebook.verify_token
        THEN r.status_code = 200 /\ r.body = r.query.challenge.text
        ELSE r.status_code = 403 /\ r.detail = "Invalid verification token"

\* the POST /webhook/facebook exchanges whose body was read
FacebookPosts ==
  {i \in DOMAIN hook_requests :
     /\ hook_requests[i].route = "POST /webhook/facebook"
     /\ DOMAIN hook_requests[i].payload # {}}

HasMessage(message_event) == "message" \in DOMAIN message_event

\* the background tasks request i left to run, in the order they were added
HookTasksOf(i) == SelectSeq(hook_tasks, LAMBDA task : task.request = i)

\* C12: POST /webhook/facebook schedules exactly one background task for each
\* messaging event that has a 'message' key, in the order of the events across
\* the entries, and none for the other events; it answers {"status": "ok"}
\* when the payload is verified and 403 when verify_webhook rejects it
C12_OneTaskPerMessageEvent ==
  \A i \in FacebookPosts :
    LET r == hook_requests[i]
        expected == SelectSeq(MessagingEvents(r.payload), HasMessage)
        tasks == HookTasksOf(i)
    IN  IF verify_webhook(facebook, r.payload)
        THEN /\ r.status_code = 200 /\ r.body = "{status: ok}"
             /\ Len(tasks) = Len(expected)
             /\ \A k \in DOMAIN tasks :
                  /\ tasks[k].fn = "process_and_respond_facebook"
                  /\ tasks[k].message_data.from = expected[k].sender.id
        ELSE r.status_code = 403 /\ tasks = << >>

\* the tasks of the router's SMS webhook that have run
HookSmsDone ==
  {t \in DOMAIN hook_tasks :
     hook_tasks[t].fn = "process_and_respond_sms" /\ hook_tasks[t].done}

\* the 'to' number of the message is the phone of a row of businesses
Configured(message_data) ==
  /\ ~message_data.to.is_none
  /\ \E row \in businesses : row.phone = message_data.to.text

\* C13: process_message, for a message whose 'to' number matches a configured
\* business, returns a result without an 'error' key that holds response_text,
\* intent, escalate and booking_created, after logging exactly one interaction;
\* for an unconfigured number it returns {"error": "Business not configured"}
\* and logs nothing
C13_ResultForConfiguredBusiness ==
  \A t \in HookSmsDone :
    LET result == hook_tasks[t].result
    IN  IF Configured(hook_tasks[t].message_data)
        THEN /\ "error" \notin result.keys
             /\ {"response_text", "intent", "escalate", "booking_created"}
                  \subseteq result.keys
             /\ result.logged = 1
        ELSE /\ result.keys = {"error"}
             /\ result.error = "Business not configured"
             /\ result.logged = 0

TaskScheduled(t) ==
  t \in DOMAIN background_tasks /\ background_tasks[t].state = "scheduled"

TaskDone(t) ==
  t \in DOMAIN background_tasks /\ background_tasks[t].state = "done"

\* the task found its business and then met a failure: the row was not written
\* or the SMS was not sent
TaskFailed(t) ==
  /\ TaskDone(t)
  /\ background_tasks[t].run.found
  /\ ~background_tasks[t].run.log_ok \/ ~background_tasks[t].run.success

\* C14: every inbound message has its own background task, and every task
\* that was scheduled runs to its end, whatever failed (lookup, LLM, database,
\* SMS SDK) in it or in any other task and whatever the order of the tasks
C14_EveryTaskCompletes ==
  \A t \in 1..MaxRequests : [](TaskScheduled(t) => <>TaskDone(t))

\* a task failed and a task added after it ran to its end and sent its reply
C14_Witness ==
  /\ \E t, u \in DOMAIN background_tasks :
       t < u /\ TaskFailed(t) /\ TaskDone(u) /\ background_tasks[u].run.success

\* C15: while ai_processor, database or twilio_sms is None (after a startup
\* that failed part-way as well), every POST /webhook/sms is answered 503 and
\* schedules no background task; none is answered 200 or 500
C15_Missing503 ==
  (~ai_processor \/ ~database \/ ~twilio_sms) =>
    /\ \A i \in DOMAIN requests :
         /\ requests[i].status_code = 503
         /\ requests[i].detail = "Components not properly initialized"
    /\ background_tasks = << >>

\* startup stopped after AIProcessor and Database were built, and a POST came
C15_Witness ==
  /\ started /\ ai_processor /\ database /\ ~twilio_sms
  /\ \E i \in DOMAIN requests : requests[i].status_code = 503

\* no row of businesses has the To number of task t as its phone
NoRowFor(t) ==
  \/ background_tasks[t].sms_data.To.is_none
  \/ \A b \in businesses : b.phone # background_tasks[t].sms_data.To.text

\* C16: a run of process_sms_message that finds no business for the To number
\* (no such row, or the lookup failed) ends after the lookup: the LLM is not
\* called, and the conversations table and the messages sent are unchanged
C16_NoBusinessNoEffect ==
  [][\A t \in DOMAIN background_tasks :
       ( /\ background_tasks[t].state = "scheduled"
         /\ background_tasks'[t].state = "done"
         /\ NoRowFor(t) \/ ~background_tasks'[t].run.found )
       => /\ ~background_tasks'[t].run.found
          /\ background_tasks'[t].run.steps = <<"lookup">>
          /\ conversations' = conversations
          /\ sms_sent' = sms_sent]_vars

\* a task found no business while a row was in conversations and an SMS had
\* been sent, both left by another task
C16_Witness ==
  /\ conversations # << >> /\ sms_sent # << >>
  /\ \E t \in DOMAIN background_tasks :
       /\ background_tasks[t].state = "done"
       /\ ~background_tasks[t].run.found
       /\ background_tasks[t].run.steps = <<"lookup">>

\* what Gemini can answer that is no classification: an exception, None or an
\* empty text, a text that is not JSON, JSON without the keys, JSON null
UnusableAnswers ==
  { LLMError, LLMText(""), LLMText(NotJsonText), LLMText(JsonNoIntent),
    LLMText(JsonNull) }

\* the word lists of the fallback, in the order it tries them
FallbackWords ==
  << [intent |-> "booking",
      words |-> <<"book", "appointment", "schedule", "rendez-vous", "réserver">>],
     [intent |-> "faq",
      words |-> <<"hours", "open", "price", "cost", "heures", "ouvert", "prix">>],
     [intent |-> "complaint",
      words |-> <<"terrible", "awful", "complaint", "affreux", "plainte">>] >>

\* the lists that have a word in the message
FallbackHits(message) ==
  {i \in DOMAIN FallbackWords : AnyIn(FallbackWords[i].words, lower(message))}

\* C17: when the classification call to the LLM fails, returns nothing or
\* returns text that is not the expected JSON, classify_intent returns the
\* fallback: the first of booking, faq, complaint with a word in the message,
\* else general, never cancellation; confidence 0.6; no entities;
\* requires_escalation exactly when the message holds an escalation trigger
C17_FallbackWhenLLMUnusable ==
  ( /\ ai_pc = "classified"
    /\ ai_out.llm_calls = 1
    /\ ai_in.llmC \in UnusableAnswers )
  => LET hits == FallbackHits(ai_in.message)
         first == CHOOSE i \in hits : \A j \in hits : i <= j
     IN  /\ ai_out.value.intent =
              (IF hits = {} THEN "general" ELSE FallbackWords[first].intent)
         /\ ai_out.value.intent # "cancellation"
         /\ ai_out.value.confidence = Conf(6, 10)
         /\ ai_out.value.entities = {}
         /\ ai_out.value.requires_escalation =
              (\E k \in DOMAIN escalation_triggers :
                 Contains(escalation_triggers[k], lower(ai_in.message)))

\* Gemini answered text that is not JSON to a message with a word of each
\* list and an escalation trigger: booking wins, and the message escalates
C17_Witness ==
  /\ ai_pc = "classified"
  /\ ai_in.message = "awful price to book"
  /\ ai_in.llmC = LLMText(NotJsonText)
  /\ ai_out.llm_calls = 1
  /\ Cardinality(FallbackHits(ai_in.message)) = 3
  /\ ai_out.value.intent = "booking"
  /\ ai_out.value.requires_escalation

\* a message that asks to cancel falls back to booking: 'reschedule' holds
\* 'schedule', a word of the booking list
C17_WitnessCancel ==
  /\ ai_pc = "classified"
  /\ ai_in.message = "cancel or reschedule"
  /\ ai_in.llmC = LLMError
  /\ ai_out.llm_calls = 1
  /\ ai_out.value.intent = "booking"

\* the message of task t has a body and a 'to' number that is the phone of a
\* row of businesses, and the lookup of that row worked: the case in which
\* process_message is specified to return a result without an error (C13)
Processable(t) ==
  /\ Configured(hook_tasks[t].message_data)
  /\ ~hook_tasks[t].message_data.body.is_none
  /\ hook_tasks[t].result.error # "Business not configured"

FramesPerChunk == 50
MaxFrames == 100
MaxStatus == 2

\* '\n'.join(f"{msg['speaker']}: {msg['text']}" for msg in history)
RECURSIVE JoinHistory(_, _)
JoinHistory(history, i) ==
  IF i > Len(history) THEN ""
  ELSE history[i].speaker \o ": " \o history[i].text \o
       (IF i < Len(history) THEN "\n" ELSE "") \o JoinHistory(history, i + 1)

\* save_conversation_log: a Database is constructed (which creates the demo
\* business in an empty table) and one row is logged; whatever raises is
\* caught and logged
save_conversation_log(call_sid, context, table, rows, ctorOk, demoOk, logOk) ==
  LET conversation_text == JoinHistory(context.conversation_history, 1)
      logged == log_conversation(rows,
                  [business_id |-> "demo_salon_001",
                   customer_phone |-> Str("voice_call"),
                   platform |-> "voice",
                   inbound_message |-> conversation_text,
                   outbound_message |-> "Voice conversation completed",
                   intent |-> "voice_call",
                   ai_confidence |-> Conf(9, 10),
                   escalated |-> FALSE],
                  logOk)
  IN  IF ~ctorOk
      THEN [businesses |-> table, conversations |-> rows, saved |-> FALSE]
      ELSE [businesses |-> ensure_demo_business(table, demoOk),
            conversations |-> logged.table, saved |-> logged.ok]

\* handle_call_end: with a context, save it and delete it; without, nothing
handle_call_end(call_sid, contexts, table, rows, ctorOk, demoOk, logOk) ==
  IF call_sid \in DOMAIN contexts
  THEN LET log == save_conversation_log(call_sid, contexts[call_sid], table, rows,
                                        ctorOk, demoOk, logOk)
       IN  [conversation_contexts |->
              [c \in DOMAIN contexts \ {call_sid} |-> contexts[c]],
            businesses |-> log.businesses,
            conversations |-> log.conversations,
            found |-> TRUE, saved |-> log.saved]
  ELSE [conversation_contexts |-> contexts, businesses |-> table,
        conversations |-> rows, found |-> FALSE, saved |-> FALSE]

\* what the environment does to a handle_call_end that finds a context
EndEnvs(call_sid) ==
  IF call_sid \in DOMAIN conversation_contexts
  THEN { [ctorOk |-> FALSE, demoOk |-> TRUE, logOk |-> TRUE] } \cup
       [ctorOk : {TRUE},
        demoOk : IF businesses = {} THEN BOOLEAN ELSE {TRUE},
        logOk : BOOLEAN]
  ELSE {[ctorOk |-> TRUE, demoOk |-> TRUE, logOk |-> TRUE]}

\* the buffer test reading > where the code reads >=
EnoughAudioStrict(buffer) == Len(buffer) > FramesPerChunk

\* len(self.audio_buffer[call_sid]) >= 50
EnoughAudio(buffer) == Len(buffer) >= FramesPerChunk

\* b''.join(frames)
RECURSIVE JoinBytes(_, _)
JoinBytes(frames, i) ==
  IF i > Len(frames) THEN << >> ELSE frames[i] \o JoinBytes(frames, i + 1)

\* what the recognizer makes of a second of streamed audio
StreamSpeechOutcomes == { SpeechNoResult, SpeechResult(" this is terrible ", 61) }

\* the call whose audio is streamed
StreamCallSid == "CA1"

\* the websocket of a call is accepted: handle_websocket starts with an empty
\* buffer (the route closes the socket when there is no voice handler)
ws_connect(call_sid) ==
  /\ voice_system
  /\ call_sid \notin DOMAIN stream
  /\ audio_buffer' = (call_sid :> << >>) @@ audio_buffer
  /\ stream' = (call_sid :> [pc |-> "open", received |-> 0, batches |-> << >>,
                             call_ends |-> 0, responses |-> 0,
                             last_event |-> ""]) @@ stream
  /\ UNCHANGED <<componentVars, dbVars, smsVars, last_health, aiVars, voiceVars,
                 hookVars, laterVars, status_log, voice_system>>

\* a 'media' message: the frame is decoded and buffered; at 50 frames the
\* buffer is joined, emptied and handed to handle_voice_stream, and the audio
\* it returns, if any, is sent back. The n-th frame of the call is the byte n
ws_media(call_sid) ==
  /\ call_sid \in DOMAIN stream
  /\ stream[call_sid].pc = "open"
  /\ stream[call_sid].received < MaxFrames
  /\ LET audio_data == << stream[call_sid].received + 1 >>
         buffer == Append(audio_buffer[call_sid], audio_data)
     IN  IF EnoughAudio(buffer)
         THEN /\ \E recognition \in StreamSpeechOutcomes :
                   handle_voice_stream(call_sid, recognition)
              /\ audio_buffer' = [audio_buffer EXCEPT ![call_sid] = << >>]
              /\ stream' = [stream EXCEPT
                   ![call_sid].received = @ + 1,
                   ![call_sid].last_event = "media",
                   ![call_sid].batches = Append(@, JoinBytes(buffer, 1)),
                   ![call_sid].responses =
                     @ + (IF voice_out'.audio.is_none THEN 0 ELSE 1)]
              /\ UNCHANGED <<hookVars, laterVars, status_log, voice_system>>
         ELSE /\ audio_buffer' = [audio_buffer EXCEPT ![call_sid] = buffer]
              /\ stream' = [stream EXCEPT ![call_sid].received = @ + 1,
                                           ![call_sid].last_event = "media"]
              /\ UNCHANGED <<componentVars, dbVars, smsVars, last_health, aiVars,
                             voiceVars, hookVars, laterVars, status_log, voice_system>>

\* a message with another event: no branch of the loop takes it. Twilio sends
\* 'connected' and 'start' before the first frame
ws_other(call_sid) ==
  /\ call_sid \in DOMAIN stream
  /\ stream[call_sid].pc = "open"
  /\ stream[call_sid].received = 0
  /\ stream[call_sid].last_event = ""
  /\ stream' = [stream EXCEPT ![call_sid].last_event = "start"]
  /\ UNCHANGED <<componentVars, dbVars, smsVars, last_health, aiVars, voiceVars,
                 hookVars, laterVars, audio_buffer, status_log, voice_system>>

\* a 'stop' message: handle_call_end, then break
ws_stop(call_sid, env) ==
  /\ call_sid \in DOMAIN stream
  /\ stream[call_sid].pc = "open"
  /\ LET end == handle_call_end(call_sid, conversation_contexts, businesses,
                                conversations, env.ctorOk, env.demoOk, env.logOk)
     IN  /\ conversation_contexts' = end.conversation_contexts
         /\ businesses' = end.businesses
         /\ conversations' = end.conversations
  /\ stream' = [stream EXCEPT ![call_sid].pc = "ended",
                               ![call_sid].call_ends = @ + 1,
                               ![call_sid].last_event = "stop"]
  /\ UNCHANGED <<componentVars, smsVars, last_health, aiVars, voice_out, chunks,
                 hookVars, laterVars, audio_buffer, status_log, voice_system>>

\* a message that is not JSON, has no 'event' or no payload, or a socket that
\* breaks: the exception ends the loop in the except clause
ws_error(call_sid) ==
  /\ call_sid \in DOMAIN stream
  /\ stream[call_sid].pc = "open"
  /\ stream' = [stream EXCEPT ![call_sid].pc = "failed"]
  /\ UNCHANGED <<componentVars, dbVars, smsVars, last_health, aiVars, voiceVars,
                 hookVars, laterVars, audio_buffer, status_log, voice_system>>

\* the statuses that end a call for voice_call_status
EndStatuses == {"completed", "failed", "canceled"}

\* POST /voice/status: handle_call_end for an ended call when there is a voice
\* system, then 200 OK; a form that cannot be read is answered 500
voice_call_status(call_sid, call_status, formOk, env) ==
  /\ Len(status_log) < MaxStatus
  /\ IF ~formOk
     THEN /\ status_log' = Append(status_log,
               [call_sid |-> "", call_status |-> "",
                status_code |-> 500, body |-> "Error", ended |-> FALSE])
          /\ UNCHANGED <<dbVars, conversation_contexts>>
     ELSE IF call_status \in EndStatuses /\ voice_system
     THEN LET end == handle_call_end(call_sid, conversation_contexts, businesses,
                                     conversations, env.ctorOk, env.demoOk,
                                     env.logOk)
          IN  /\ conversation_contexts' = end.conversation_contexts
              /\ businesses' = end.businesses
              /\ conversations' = end.conversations
              /\ status_log' = Append(status_log,
                   [call_sid |-> call_sid, call_status |-> call_status,
                    status_code |-> 200, body |-> "OK", ended |-> TRUE])
     ELSE /\ status_log' = Append(status_log,
               [call_sid |-> call_sid, call_status |-> call_status,
                status_code |-> 200, body |-> "OK", ended |-> FALSE])
          /\ UNCHANGED <<dbVars, conversation_contexts>>
  /\ UNCHANGED <<componentVars, smsVars, last_health, aiVars, voice_out, chunks,
                 hookVars, laterVars, audio_buffer, stream, voice_system>>

\* the status callbacks Twilio posts: the streamed call ends or goes on,
\* another call fails. The startup of main_py_fix.py has built its Database,
\* so the demo business is in the table
StatusForms ==
  { <<"CA1", "completed">>, <<"CA1", "in-progress">>, <<"CA2", "failed">> }

StreamInit ==
  /\ QuietMain /\ QuietHook /\ QuietLater
  /\ businesses = {DemoRow}
  /\ ai_pc = "idle" /\ ai_in = [message |-> ""] /\ ai_out = [raised |-> FALSE]
  /\ audio_buffer = << >>
  /\ stream = << >>
  /\ status_log = << >>
  /\ voice_system \in BOOLEAN

NextStream ==
  \/ ws_connect(StreamCallSid)
  \/ ws_media(StreamCallSid)
  \/ ws_other(StreamCallSid)
  \/ \E env \in EndEnvs(StreamCallSid) : ws_stop(StreamCallSid, env)
  \/ ws_error(StreamCallSid)
  \/ \E form \in StatusForms :
       \E env \in EndEnvs(form[1]) : voice_call_status(form[1], form[2], TRUE, env)
  \/ \E env \in EndEnvs("") : voice_call_status("", "", FALSE, env)

SpecStream == StreamInit /\ [][NextStream]_vars

\* the bytes 1 .. n in order: the frames of a call as they arrived
RECURSIVE Arrived(_)
Arrived(n) == IF n = 0 THEN << >> ELSE Append(Arrived(n - 1), n)

RECURSIVE Concat(_, _)
Concat(seqs, i) == IF i > Len(seqs) THEN << >> ELSE seqs[i] \o Concat(seqs, i + 1)

\* C19: in handle_websocket the audio of a call is processed exactly when 50
\* frames have accumulated since the last processing: what handle_voice_stream
\* is given is those 50 frames joined in arrival order, no frame lost or
\* repeated; the buffer is empty afterwards and holds fewer than 50 frames
\* between messages; on 'stop' handle_call_end is invoked once and the loop
\* ends, so the frames still buffered are never processed
C19_FiftyFramesPerChunk ==
  \A c \in DOMAIN stream :
    LET st == stream[c]
    IN  /\ Len(audio_buffer[c]) < FramesPerChunk
        /\ Len(st.batches) = st.received \div FramesPerChunk
        /\ \A k \in DOMAIN st.batches : Len(st.batches[k]) = FramesPerChunk
        /\ Concat(st.batches, 1) \o JoinBytes(audio_buffer[c], 1) = Arrived(st.received)
        /\ chunks = Len(st.batches)
        /\ st.batches # << >> => voice_out.call_sid = c
        /\ st.call_ends = (IF st.pc = "ended" THEN 1 ELSE 0)
        /\ st.last_event = "stop" <=> st.pc = "ended"

\* 50 frames were processed, frames came after them, and 'stop' ended the
\* loop with those frames in the buffer
C19_Witness ==
  \E c \in DOMAIN stream :
    /\ stream[c].pc = "ended" /\ stream[c].call_ends = 1
    /\ Len(stream[c].batches) = 1
    /\ stream[c].batches[1] = Arrived(FramesPerChunk)
    /\ Len(audio_buffer[c]) > 0
    /\ stream[c].received = FramesPerChunk + Len(audio_buffer[c])

\* the rows save_conversation_log has written
VoiceRows == {i \in DOMAIN conversations : conversations[i].platform = "voice"}

\* the 'stop' message of the streamed call has been handled
StopHandled ==
  StreamCallSid \in DOMAIN stream /\ stream[StreamCallSid].pc = "ended"

\* a status callback has called handle_call_end for the streamed call
StatusEnded ==
  \E i \in DOMAIN status_log :
    status_log[i].call_sid = StreamCallSid /\ status_log[i].ended

\* C20, the states: the conversation of the call is saved at most once; once
\* both the 'stop' message and a status callback (completed, failed or
\* canceled) have triggered handle_call_end, in either order, there is exactly
\* one row with platform 'voice', the context is gone, and no callback was
\* answered with an error
C20_State ==
  /\ Cardinality(VoiceRows) <= 1
  /\ (StopHandled /\ StatusEnded) =>
       /\ Cardinality(VoiceRows) = 1
       /\ StreamCallSid \notin DOMAIN conversation_contexts
       /\ \A i \in DOMAIN status_log :
            status_log[i].ended => status_log[i].status_code = 200

\* C20, the steps: a status callback that calls handle_call_end for a call
\* with no context changes nothing
C20_Step ==
  ( /\ Len(status_log') = Len(status_log) + 1
    /\ status_log'[Len(status_log')].ended
    /\ status_log'[Len(status_log')].call_sid \notin DOMAIN conversation_contexts )
  => UNCHANGED <<conversation_contexts, conversations, businesses>>

Delivered == {i \in DOMAIN sms_sent : sms_sent[i].ok}

\* C21: TwilioSMS.send_sms never raises: the task that calls it always gets
\* its result and ends with the send step.  Without a client the result is
\* the error "Twilio not configured" and the SDK is not called; when the SDK
\* call fails the result carries an error; only a call the SDK accepted gives
\* success.  A failed send leaves the row that process_sms_message logged
\* before it in place.
C21_SendSmsNeverRaises ==
  /\ Cardinality({t \in Processed : background_tasks[t].run.success})
       <= Cardinality(Delivered)
  /\ \A t \in Processed :
       LET task == background_tasks[t]
           run == task.run
       IN  /\ Once(run.steps, "send")
           /\ run.steps[Len(run.steps)] = "send"
           /\ run.sdk_calls <= 1
           /\ run.success => run.sdk_calls = 1
           /\ (run.log_ok /\ ~run.success) => Rows(RowOf(t)) # {}
           /\ \A client \in BOOLEAN, sdkOk \in BOOLEAN :
                LET r == send_sms(client, task.sms_data.From, task.sms_data.To,
                                  run.ai_response.text, sdkOk)
                IN  /\ ~client => /\ r.error = "Twilio not configured"
                                  /\ r.calls = << >>
                                  /\ ~r.success
                    /\ (client /\ ~sdkOk) => (r.error # "" /\ ~r.success)
                    /\ r.success => (client /\ sdkOk /\ Len(r.calls) = 1)
                    /\ r.success <=> (r.error = "")

\* a reply whose row was logged and whose SDK call then failed, the row
\* still being in the table
C21_Witness ==
  \E t \in Processed :
    /\ background_tasks[t].run.log_ok
    /\ background_tasks[t].run.sdk_calls = 1
    /\ ~background_tasks[t].run.success
    /\ Rows(RowOf(t)) # {}

\* dict.get(key, default)
Get(d, key, default) == IF key \in DOMAIN d THEN d[key] ELSE default

\* the result dict of send_sms, as send_bulk_sms keeps it
ResultDict(r) == [success |-> r.success, error |-> r.error]

\* send_bulk_sms counting a failed send as well
CountAlways(result) == TRUE

\* result.get('success')
CountSuccess(result) == result.success

\* send_bulk_sms: the loop over messages[i..]; sdk[i] says whether
\* messages.create returns for message i.  The outcome is the result dict
\* and the SDK calls made.
RECURSIVE BulkLoop(_, _, _, _, _, _, _, _, _)
BulkLoop(client, phone_number, messages, sdk, i, results, successful, failed, calls) ==
  IF i > Len(messages)
  THEN [result |-> [total_messages |-> Len(messages),
                    successful |-> successful,
                    failed |-> failed,
                    results |-> results],
        calls |-> calls]
  ELSE LET msg == messages[i]
           r == send_sms(client, Get(msg, "to", None),
                         Get(msg, "from", phone_number),
                         Get(msg, "message", None), sdk[i])
       IN  BulkLoop(client, phone_number, messages, sdk, i + 1,
                    Append(results, ResultDict(r)),
                    IF CountSuccess(ResultDict(r)) THEN successful + 1
                    ELSE successful,
                    IF CountSuccess(ResultDict(r)) THEN failed
                    ELSE failed + 1,
                    calls \o r.calls)

send_bulk_sms(client, phone_number, messages, sdk) ==
  BulkLoop(client, phone_number, messages, sdk, 1, << >>, 0, 0, << >>)

\* how many messages one call of send_bulk_sms is given
MaxBulkLen == 3

\* the dicts of a bulk request: one relying on the default sender, one with
\* its own sender, one without destination
BulkMessages ==
  { [to |-> Str("5145550101"), message |-> Str("hours")],
    [to |-> Str(CustomerPhone), from |-> Str(OtherPhone), message |-> Str("promo")],
    [message |-> Str("lost")] }

BulkInputs ==
  UNION { [1..n -> BulkMessages] : n \in 0..MaxBulkLen }

\* the call of send_bulk_sms on a new TwilioSMS object whose client is set or
\* not and whose phone_number was found in the environment or not
bulk_send(client, phone_number, messages) ==
  /\ ~bulk_out.called
  /\ \E sdk \in (IF client THEN [DOMAIN messages -> BOOLEAN]
                 ELSE {[i \in DOMAIN messages |-> TRUE]}) :
       \E out \in {send_bulk_sms(client, phone_number, messages, sdk)} :
         bulk_out' = [called |-> TRUE,
                      client |-> client,
                      phone_number |-> phone_number,
                      messages |-> messages,
                      sdk |-> sdk,
                      result |-> out.result,
                      calls |-> out.calls]
  /\ UNCHANGED <<componentVars, dbVars, smsVars, last_health, aiVars, voiceVars,
                 hookVars, streamVars, tv_turns, db_ctors, bookingVars, recent_out>>

BulkInit == Quiet /\ businesses = {} /\ AIIdle

NextBulk ==
  \E client \in BOOLEAN, phone_number \in {None, Str(BusinessPhone)},
     messages \in BulkInputs :
    bulk_send(client, phone_number, messages)

SpecBulk == BulkInit /\ [][NextBulk]_vars

\* the destination send_sms hands to the SDK for message i
BulkTo(i) == format_phone_number(Get(bulk_out.messages[i], "to", None))

\* the messages for which the SDK was called: all with a client, none without
BulkAttempted ==
  IF bulk_out.client THEN DOMAIN bulk_out.messages ELSE {}

\* C22: send_bulk_sms attempts every message of its input once, in input
\* order, whatever the outcome of the sends before it: with a client the SDK
\* calls are those of messages 1, 2, ... in that order.  In the result
\* total_messages = successful + failed = length of results, results[i] is
\* the outcome of message i, and successful counts exactly the results with
\* success = true.
C22_BulkCountsAndOrder ==
  bulk_out.called =>
    LET messages == bulk_out.messages
        result == bulk_out.result
    IN  /\ Len(bulk_out.calls) = Cardinality(BulkAttempted)
        /\ \A i \in BulkAttempted :
             /\ bulk_out.calls[i].to = BulkTo(i)
             /\ bulk_out.calls[i].body = Get(messages[i], "message", None)
             /\ bulk_out.calls[i].from_ =
                  format_phone_number(Get(messages[i], "from",
                                          bulk_out.phone_number))
        /\ result.total_messages = Len(messages)
        /\ result.total_messages = result.successful + result.failed
        /\ Len(result.results) = result.total_messages
        /\ \A i \in DOMAIN messages :
             /\ result.results[i].success <=>
                  (bulk_out.client /\ bulk_out.sdk[i] /\ BulkTo(i) # "")
             /\ result.results[i].success <=> (result.results[i].error = "")
        /\ result.successful =
             Cardinality({i \in DOMAIN result.results : result.results[i].success})

\* three messages of which the first fails at the SDK, the second has no
\* destination and the third is sent
C22_Witness ==
  /\ bulk_out.called /\ bulk_out.client
  /\ Len(bulk_out.messages) = 3
  /\ ~bulk_out.sdk[1] /\ BulkTo(1) # ""
  /\ BulkTo(2) = ""
  /\ bulk_out.result.results[3].success
  /\ bulk_out.result.successful = 1 /\ bulk_out.result.failed = 2
  /\ Len(bulk_out.calls) = 3

(***************************************************************************)
(* src/integrations/twilio_voice.py: TwilioVoice                           *)
(***************************************************************************)

\* self.voices
voices ==
  [french |-> [voice |-> "Polly.Chantal", language |-> "fr-CA"],
   english |-> [voice |-> "Polly.Joanna", language |-> "en-CA"]]

FrenchGatherPrompt ==
  "Avez-vous d'autres questions? Ou dites 'transférer' pour parler à quelqu'un."

EnglishGatherPrompt ==
  "Do you have any other questions? Or say 'transfer' to speak with someone."

\* create_ai_response: the TwiML document, kept as its verbs
create_ai_response(message, ai_response_text, language) ==
  LET voice_config == Get(voices, language, voices["english"])
  IN  [say |-> [text |-> ai_response_text,
                voice |-> voice_config.voice,
                language |-> voice_config.language],
       gather |-> [input |-> "speech",
                   action |-> "/webhook/voice/process",
                   language |-> voice_config.language,
                   say |-> IF language = "french" THEN FrenchGatherPrompt
                           ELSE EnglishGatherPrompt],
       closing |-> IF language = "french" THEN "Merci d'avoir appelé! Au revoir!"
                   ELSE "Thanks for calling! Goodbye!"]

transfer_keywords ==
  [french |-> << "transférer", "transfert", "humain", "personne", "quelqu'un",
                 "gérant", "manager", "superviseur", "propriétaire", "patron",
                 "parler à", "voir", "rencontrer" >>,
   english |-> << "transfer", "human", "person", "someone", "manager",
                  "supervisor", "owner", "speak to", "talk to", "representative",
                  "agent", "operator" >>]

detect_transfer_request(speech_text, language) ==
  AnyIn(Get(transfer_keywords, language, transfer_keywords["english"]),
        lower(speech_text))

TwilioVoice_french_words ==
  << "bonjour", "salut", "merci", "oui", "non", "je", "vous", "nous",
     "comment", "quand", "où", "pourquoi", "combien", "quel", "quelle",
     "heures", "ouvert", "fermé", "prix", "coût", "rendez-vous",
     "j'aimerais", "voudrais", "puis-je", "pouvez-vous" >>

\* TwilioVoice.detect_language_from_speech
TwilioVoice_detect_language_from_speech(speech_text) ==
  IF CountIn(TwilioVoice_french_words, lower(speech_text)) >= 2
  THEN "french" ELSE "english"

\* process_voice_input; speech_text is an Optional[str], and None has no
\* lower(): the except branch answers
process_voice_input(speech_text, call_context) ==
  IF speech_text.is_none
  THEN [action |-> "error", language |-> "english",
        error |-> "'NoneType' object has no attribute 'lower'"]
  ELSE LET language == TwilioVoice_detect_language_from_speech(speech_text.text)
       IN  IF detect_transfer_request(speech_text.text, language)
           THEN [action |-> "transfer", language |-> language,
                 message |-> speech_text.text]
           ELSE [action |-> "process_ai", language |-> language,
                 message |-> speech_text.text, call_context |-> call_context]

\* how many turns a call has
MaxTurns == 2

\* the language create_ai_response is given: one of its two, or another
PromptLanguages == {"french", "english", "spanish"}

\* what the speech recognition hands to process_voice_input
Replies ==
  { None, Str("transfer"), Str("transférer"), Str("Transfer me please"),
    Str("Bonjour, je voudrais transférer"), Str("oui merci"),
    Str("what are your hours"), Str("je veux voir le gérant") }

\* one turn of a call: create_ai_response speaks the answer and prompts the
\* caller, the caller replies, process_voice_input decides what to do
voice_turn(language, speech_text) ==
  /\ Len(tv_turns) < MaxTurns
  /\ \A i \in DOMAIN tv_turns : tv_turns[i].result.action = "process_ai"
  /\ tv_turns' = Append(tv_turns,
       [language |-> language,
        twiml |-> create_ai_response("", "We open at nine.", language),
        speech_text |-> speech_text,
        result |-> process_voice_input(speech_text, Len(tv_turns))])
  /\ UNCHANGED <<componentVars, dbVars, smsVars, last_health, aiVars, voiceVars,
                 hookVars, streamVars, bulk_out, db_ctors, bookingVars, recent_out>>

TwilioVoiceInit == Quiet /\ businesses = {} /\ AIIdle

NextTwilioVoice ==
  \E language \in PromptLanguages, speech_text \in Replies :
    voice_turn(language, speech_text)

SpecTwilioVoice == TwilioVoiceInit /\ [][NextTwilioVoice]_vars

\* the word a gather prompt puts between quotes: the text after the first
\* opening quote up to the next quote
PromptedWord(prompt) ==
  LET opens == {i \in 1..(Len(prompt) - 1) : SubSeq(prompt, i, i + 1) = " '"}
      open == CHOOSE i \in opens : \A k \in opens : i <= k
      closes == {j \in (open + 2)..Len(prompt) : SubSeq(prompt, j, j) = "'"}
      close == CHOOSE j \in closes : \A k \in closes : j <= k
  IN  SubSeq(prompt, open + 2, close - 1)

\* the turns in which the caller said just the word the prompt asked for
PromptedReplies ==
  {i \in DOMAIN tv_turns :
     tv_turns[i].speech_text = Str(PromptedWord(tv_turns[i].twiml.gather.say))}

\* C23: after create_ai_response has prompted the caller in language L to say
\* 'transfer' (English) or 'transférer' (French), a reply consisting of that
\* word makes process_voice_input return action 'transfer';
\* process_voice_input always returns exactly one of transfer, process_ai and
\* error, and transfer whenever detect_transfer_request holds for the
\* detected language.
C23_PromptedWordTransfers ==
  /\ \A i \in PromptedReplies : tv_turns[i].result.action = "transfer"
  /\ \A i \in DOMAIN tv_turns :
       LET turn == tv_turns[i]
       IN  /\ turn.result.action \in {"transfer", "process_ai", "error"}
           /\ ( /\ ~turn.speech_text.is_none
                /\ detect_transfer_request(
                     turn.speech_text.text,
                     TwilioVoice_detect_language_from_speech(turn.speech_text.text)) )
                => turn.result.action = "transfer"

(***************************************************************************)
(* src/database.py: Database constructed several times on one file         *)
(***************************************************************************)

\* how many times Database is constructed
MaxCtors == 3

\* os.getenv('TWILIO_PHONE_NUMBER', '+1234567890') in the constructing process
CtorEnvPhones == {BusinessPhone, OtherPhone}

\* the businesses table when the constructions begin: a new file, a file with
\* the demo business, a file with another business
CtorTables ==
  InitialTables \cup { {BusinessRow("biz_002", OtherPhone, SqlText(JsonServices))} }

\* INSERT INTO businesses without the constraints of the table
InsertBusinessUnchecked(table, row, dbOk) ==
  IF dbOk THEN [ok |-> TRUE, table |-> table \cup {row}]
  ELSE [ok |-> FALSE, table |-> table]

\* INSERT INTO businesses and commit: id is the PRIMARY KEY and phone is
\* UNIQUE, so a row that repeats either is refused (IntegrityError); dbOk
\* says whether sqlite could write at all
InsertBusiness(table, row, dbOk) ==
  IF dbOk /\ ~\E r \in table : r.id = row.id \/ r.phone = row.phone
  THEN [ok |-> TRUE, table |-> table \cup {row}]
  ELSE [ok |-> FALSE, table |-> table]

\* Database(): init_database creates the tables (initOk: sqlite lets it, or
\* it raises and the constructor raises), then ensure_demo_business counts
\* the businesses (countOk: the SELECT answers, or its error is swallowed)
Database_init(phone, initOk, countOk) ==
  /\ Len(db_ctors) < MaxCtors
  /\ db_ctors' = Append(db_ctors,
       IF ~initOk
       THEN [pc |-> "raised", phone |-> phone, count |-> -1, inserted |-> FALSE,
             seen |-> {}]
       ELSE IF ~countOk
       THEN [pc |-> "done", phone |-> phone, count |-> -1, inserted |-> FALSE,
             seen |-> {}]
       ELSE [pc |-> IF Cardinality(businesses) = 0 THEN "counted" ELSE "done",
             phone |-> phone, count |-> Cardinality(businesses),
             inserted |-> FALSE, seen |-> {}])
  /\ UNCHANGED <<componentVars, dbVars, smsVars, last_health, aiVars, voiceVars,
                 hookVars, streamVars, bulk_out, tv_turns,
                 bookingVars, recent_out>>

\* ensure_demo_business after count == 0: the INSERT and the commit; any
\* error is logged and swallowed.  seen is the table the INSERT met.
demo_insert(c, dbOk) ==
  /\ c \in DOMAIN db_ctors
  /\ db_ctors[c].pc = "counted"
  /\ LET row == BusinessRow("demo_salon_001", db_ctors[c].phone, SqlText(JsonServices))
         ins == InsertBusiness(businesses, row, dbOk)
     IN  /\ businesses' = ins.table
         /\ db_ctors' = [db_ctors EXCEPT ![c].pc = "done",
                                         ![c].inserted = ins.ok,
                                         ![c].seen = businesses]
  /\ UNCHANGED <<componentVars, conversations, smsVars, last_health, aiVars,
                 voiceVars, hookVars, streamVars, bulk_out, tv_turns,
                 bookingVars, recent_out>>

CtorInit == QuietMain /\ QuietHook /\ QuietStream /\ QuietLater /\ AIIdle
            /\ businesses \in CtorTables

NextCtor ==
  \/ \E phone \in CtorEnvPhones, initOk \in BOOLEAN, countOk \in BOOLEAN :
       Database_init(phone, initOk, countOk)
  \/ \E c \in DOMAIN db_ctors, dbOk \in BOOLEAN : demo_insert(c, dbOk)

SpecCtor == CtorInit /\ [][NextCtor]_vars

\* the constructions whose INSERT of the demo business was committed
DemoInserts == {c \in DOMAIN db_ctors : db_ctors[c].inserted}

C24_State ==
  /\ Cardinality(DemoInserts) <= 1
  /\ \A c \in DemoInserts : db_ctors[c].seen = {}
  /\ Cardinality({r \in businesses : r.id = "demo_salon_001"}) <= 1
  /\ \A r1, r2 \in businesses :
       (r1.id = r2.id \/ r1.phone = r2.phone) => r1 = r2
  /\ \A c \in DOMAIN db_ctors :
       db_ctors[c].pc = "raised" => db_ctors[c].count = -1

C24_Step == businesses \subseteq businesses'

\* C24: constructing Database any number of times, one after the other or
\* interleaved, never creates a second demo business and never raises
\* because of it: the demo business is inserted only when the businesses
\* table is empty, business ids and phone numbers stay unique, and no step
\* of the initialisation removes or changes a row that is there.
C24_OneDemoBusiness == []C24_State /\ [][C24_Step]_vars

\* two constructions counted an empty table before either inserted; one
\* inserted the demo business and the INSERT of the other was refused
C24_Witness ==
  \E c1, c2 \in DOMAIN db_ctors :
    /\ c1 # c2
    /\ db_ctors[c1].count = 0 /\ db_ctors[c2].count = 0
    /\ db_ctors[c1].inserted
    /\ db_ctors[c2].pc = "done" /\ ~db_ctors[c2].inserted
    /\ db_ctors[c2].seen # {}
    /\ db_ctors[c1].phone # db_ctors[c2].phone

(***************************************************************************)
(* src/database.py: the bookings table                                     *)
(***************************************************************************)

\* how many bookings are created
MaxBookings == 2

\* an Optional[int]
NoneInt == [is_none |-> TRUE, value |-> 0]
Int_(n) == [is_none |-> FALSE, value |-> n]

\* the dicts create_booking is given: without status, with a status, and
\* without the customer phone the table requires
BookingInputs ==
  { [business_id |-> "demo_salon_001", customer_phone |-> CustomerPhone,
     service |-> "haircut"],
    [business_id |-> "demo_salon_001", customer_phone |-> CustomerPhone,
     service |-> "coloring", status |-> "confirmed"],
    [business_id |-> "demo_salon_001", service |-> "styling"] }

BookingStatuses == {"confirmed", "cancelled"}

\* the ids update_booking_status is called with: those the table can hold and
\* one it never holds
BookingIds == 1..(MaxBookings + 1)

\* INTEGER PRIMARY KEY AUTOINCREMENT: one more than the largest id so far
NextBookingId(table) ==
  IF DOMAIN table = {} THEN 1
  ELSE 1 + CHOOSE n \in DOMAIN table : \A k \in DOMAIN table : k <= n

\* create_booking: the INSERT with the defaults of dict.get; customer_phone
\* and service are NOT NULL, so a dict without them makes the INSERT fail.
\* Any error is logged and None is returned.
create_booking(table, booking_data, dbOk) ==
  IF /\ dbOk
     /\ "customer_phone" \in DOMAIN booking_data
     /\ "service" \in DOMAIN booking_data
  THEN LET id == NextBookingId(table)
           row == [business_id |-> Get(booking_data, "business_id", ""),
                   customer_phone |-> booking_data.customer_phone,
                   service |-> booking_data.service,
                   duration_minutes |-> Get(booking_data, "duration_minutes", 60),
                   status |-> Get(booking_data, "status", "pending"),
                   notes |-> Get(booking_data, "notes", "")]
       IN  [result |-> Int_(id), table |-> (id :> row) @@ table]
  ELSE [result |-> NoneInt, table |-> table]

\* update_booking_status: UPDATE bookings SET status = ? WHERE id = ?, then
\* True; False only when sqlite raised
update_booking_status(table, booking_id, status, dbOk) ==
  IF dbOk
  THEN [result |-> TRUE,
        table |-> [id \in DOMAIN table |->
                     IF id = booking_id THEN [table[id] EXCEPT !.status = status]
                     ELSE table[id]]]
  ELSE [result |-> FALSE, table |-> table]

call_create_booking(booking_data, dbOk) ==
  /\ Cardinality(DOMAIN bookings) < MaxBookings
  /\ LET out == create_booking(bookings, booking_data, dbOk)
     IN  /\ bookings' = out.table
         /\ booking_out' = [op |-> "create_booking", before |-> bookings,
                            booking_data |-> booking_data, result |-> out.result]
  /\ UNCHANGED <<componentVars, dbVars, smsVars, last_health, aiVars, voiceVars,
                 hookVars, streamVars, bulk_out, tv_turns, db_ctors,
                 recent_out>>

call_update_booking_status(booking_id, status, dbOk) ==
  /\ LET out == update_booking_status(bookings, booking_id, status, dbOk)
     IN  /\ bookings' = out.table
         /\ booking_out' = [op |-> "update_booking_status", before |-> bookings,
                            booking_id |-> booking_id, status |-> status,
                            result |-> out.result]
  /\ UNCHANGED <<componentVars, dbVars, smsVars, last_health, aiVars, voiceVars,
                 hookVars, streamVars, bulk_out, tv_turns, db_ctors,
                 recent_out>>

BookingInit == Quiet /\ AIIdle /\ businesses = {DemoRow}

NextBooking ==
  \/ \E booking_data \in BookingInputs, dbOk \in BOOLEAN :
       call_create_booking(booking_data, dbOk)
  \/ \E booking_id \in BookingIds, status \in BookingStatuses, dbOk \in BOOLEAN :
       call_update_booking_status(booking_id, status, dbOk)

SpecBooking == BookingInit /\ [][NextBooking]_vars

\* the last call left every booking but this one, and every field of this one
\* but its status, as it was
OnlyStatusOf(booking_id) ==
  /\ DOMAIN bookings = DOMAIN booking_out.before
  /\ \A id \in DOMAIN bookings :
       IF id = booking_id
       THEN [bookings[id] EXCEPT !.status = ""] =
            [booking_out.before[id] EXCEPT !.status = ""]
       ELSE bookings[id] = booking_out.before[id]

\* C25: create_booking gives each new booking an id distinct from all
\* existing ones and status 'pending' unless a status is supplied;
\* update_booking_status(id, s) returns True exactly when a booking with
\* that id exists and afterwards has status s, and it changes nothing but the
\* status of that one booking.
C25_BookingIdsAndStatus ==
  /\ (booking_out.op = "create_booking" /\ ~booking_out.result.is_none) =>
       LET id == booking_out.result.value
       IN  /\ id \notin DOMAIN booking_out.before
           /\ DOMAIN bookings = DOMAIN booking_out.before \cup {id}
           /\ \A k \in DOMAIN booking_out.before :
                bookings[k] = booking_out.before[k]
           /\ bookings[id].status =
                Get(booking_out.booking_data, "status", "pending")
  /\ (booking_out.op = "create_booking" /\ booking_out.result.is_none) =>
       bookings = booking_out.before
  /\ booking_out.op = "update_booking_status" =>
       /\ booking_out.result <=>
            /\ booking_out.booking_id \in DOMAIN bookings
            /\ bookings[booking_out.booking_id].status = booking_out.status
       /\ OnlyStatusOf(booking_out.booking_id)

(***************************************************************************)
(* src/database.py: Database.get_recent_conversations                      *)
(***************************************************************************)

\* how many rows the conversations table gets
MaxRecentRows == 3

\* CURRENT_TIMESTAMP has a resolution of one second: the seconds in which the
\* rows can have been written
MaxClock == 2

\* where the displayed texts are cut
PreviewLen == 100

RECURSIVE Repeat(_, _)
Repeat(c, n) == IF n = 0 THEN "" ELSE c \o Repeat(c, n - 1)

\* a text of exactly 100 characters and one of 101
Text100 == Repeat("a", PreviewLen)
Text101 == Repeat("b", PreviewLen + 1)

\* the conversations logged: an SMS, a voice call with a long transcript, a
\* row of another business with a long answer, a row with an empty phone
RecentData ==
  { [business_id |-> "demo_salon_001", customer_phone |-> Str(CustomerPhone),
     platform |-> "sms", inbound_message |-> "hours?", outbound_message |-> Text100,
     intent |-> "faq", ai_confidence |-> Conf(8, 10), escalated |-> FALSE],
    [business_id |-> "demo_salon_001", customer_phone |-> Str("voice_call"),
     platform |-> "voice", inbound_message |-> Text101,
     outbound_message |-> "Voice conversation completed",
     intent |-> "voice_call", ai_confidence |-> Conf(9, 10), escalated |-> FALSE],
    [business_id |-> "biz_002", customer_phone |-> Str(OtherPhone),
     platform |-> "sms", inbound_message |-> "price?", outbound_message |-> Text101,
     intent |-> "pricing", ai_confidence |-> Conf(8, 10), escalated |-> TRUE],
    [business_id |-> "demo_salon_001", customer_phone |-> Str(""),
     platform |-> "sms", inbound_message |-> "hi", outbound_message |-> "hello",
     intent |-> "general", ai_confidence |-> Conf(5, 10), escalated |-> FALSE] }

RecentLimits == {-1, 0, 1, 2, 20}

\* row['customer_phone'][-4:]
LastFour(phone) ==
  IF Len(phone) <= 4 THEN phone ELSE SubSeq(phone, Len(phone) - 3, Len(phone))

\* (text[:100] + "...") if len(text or "") > 100 else text
Preview(text) ==
  IF Len(text) > PreviewLen THEN SubSeq(text, 1, PreviewLen) \o "..." ELSE text

\* the timestamps the rows of a table can carry: one per row, never
\* decreasing with the order of insertion
Timestamps(table) ==
  {ts \in [DOMAIN table -> 1..MaxClock] :
     \A i, j \in DOMAIN table : i < j => ts[i] <= ts[j]}

\* WHERE business_id = ? ORDER BY timestamp DESC: the orders in which sqlite
\* can hand over the rows; the order of rows of the same second is not
\* determined by the statement
SelectOrders(table, ts, business_id) ==
  LET matching == {i \in DOMAIN table : table[i].business_id = business_id}
      m == Cardinality(matching)
  IN  {order \in [1..m -> matching] :
         /\ \A k, l \in 1..m : k # l => order[k] # order[l]
         /\ \A k, l \in 1..m : k < l => ts[order[k]] >= ts[order[l]]}

\* LIMIT ?: a negative limit is no limit
Limited(order, limit) ==
  IF limit < 0 THEN order ELSE SubSeq(order, 1, Min(limit, Len(order)))

\* get_recent_conversations: the dicts built from the rows selected; any
\* sqlite error gives the empty list
get_recent_conversations(table, ts, picked, dbOk) ==
  IF ~dbOk THEN << >>
  ELSE [k \in DOMAIN picked |->
          LET row == table[picked[k]]
          IN  [customer |-> IF row.customer_phone # ""
                            THEN LastFour(row.customer_phone) ELSE "Unknown",
               inbound |-> Preview(row.inbound_message),
               outbound |-> Preview(row.outbound_message),
               intent |-> row.intent,
               confidence |-> row.ai_confidence,
               timestamp |-> ts[picked[k]],
               escalated |-> row.escalated,
               platform |-> row.platform]]

\* a conversation is logged
recent_log(conversation_data) ==
  /\ Len(conversations) < MaxRecentRows
  /\ conversations' = log_conversation(conversations, conversation_data, TRUE).table
  /\ UNCHANGED <<componentVars, businesses, smsVars, last_health, aiVars, voiceVars,
                 hookVars, streamVars, laterVars>>

\* a call of get_recent_conversations(business_id, limit)
recent_query(business_id, limit, dbOk) ==
  /\ \E ts \in Timestamps(conversations) :
       \E order \in SelectOrders(conversations, ts, business_id) :
         \E picked \in {Limited(order, limit)} :
           recent_out' =
             [called |-> TRUE, business_id |-> business_id, limit |-> limit,
              db_ok |-> dbOk, ts |-> ts,
              picked |-> IF dbOk THEN picked ELSE << >>,
              result |-> get_recent_conversations(conversations, ts, picked, dbOk)]
  /\ UNCHANGED <<componentVars, dbVars, smsVars, last_health, aiVars, voiceVars,
                 hookVars, streamVars, bulk_out, tv_turns, db_ctors, bookingVars>>

RecentInit == Quiet /\ AIIdle /\ businesses = {DemoRow}

NextRecent ==
  \/ \E conversation_data \in RecentData : recent_log(conversation_data)
  \/ \E business_id \in {"demo_salon_001", "biz_002"}, limit \in RecentLimits,
        dbOk \in BOOLEAN :
       recent_query(business_id, limit, dbOk)

SpecRecent == RecentInit /\ [][NextRecent]_vars

\* C26: get_recent_conversations(business_id, limit) returns at most limit
\* entries, only from rows of that business, ordered newest first, each
\* showing only the last 4 characters of the customer phone and the inbound
\* and outbound texts cut to 100 characters plus '...' when longer; on a
\* database error it returns an empty list instead of raising.
C26_RecentConversations ==
  recent_out.called =>
    LET result == recent_out.result
        picked == recent_out.picked
    IN  /\ Len(result) <= (IF recent_out.limit < 0 THEN 0 ELSE recent_out.limit)
        /\ Len(result) = Len(picked)
        /\ \A k \in DOMAIN picked :
             LET row == conversations[picked[k]]
             IN  /\ row.business_id = recent_out.business_id
                 /\ result[k].customer = LastFour(row.customer_phone)
                 /\ result[k].inbound =
                      IF Len(row.inbound_message) > 100
                      THEN SubSeq(row.inbound_message, 1, 100) \o "..."
                      ELSE row.inbound_message
                 /\ result[k].outbound =
                      IF Len(row.outbound_message) > 100
                      THEN SubSeq(row.outbound_message, 1, 100) \o "..."
                      ELSE row.outbound_message
        /\ \A k, l \in DOMAIN picked :
             k < l => recent_out.ts[picked[k]] >= recent_out.ts[picked[l]]
        /\ ~recent_out.db_ok => result = << >>

====
